---- MODULE Spec2Model ----
(***************************************************************************)
(* A model of the date_time crate: DateTuple (src/src/date_tuple.rs) and   *)
(* the calendar helpers it uses (src/src/date_utils.rs,                    *)
(* src/src/month_tuple.rs).                                                *)
(*                                                                         *)
(* A DateTuple is the record [y, m, d] of the struct's three fields.  The  *)
(* source numbers the months from zero: m = 0 is January, m = 11 is        *)
(* December (date_utils.rs:17-31, month_tuple.rs:9-11).                    *)
(*                                                                         *)
(* Integer widths are kept: a u16 or u8 sum that leaves its range either   *)
(* panics (a build with overflow checks, the debug profile) or wraps (a    *)
(* build without, the release profile).  The variable overflow_checks is   *)
(* the build; both are explored.                                           *)
(***************************************************************************)
EXTENDS Integers, Sequences, FiniteSets, TLC

VARIABLES
    overflow_checks,  \* TRUE: arithmetic overflow panics; FALSE: it wraps
    self,             \* the DateTuple the program holds
    op,               \* the last operation called ("init" before any)
    arg,              \* its arguments: [n |-> a number, date |-> a (y, m, d) triple]
    old,              \* self before the last operation
    out,              \* its result: [tag, date, n]
    steps             \* operations called so far

vars == <<overflow_checks, self, op, arg, old, out, steps>>

---------------------------------------------------------------------------
(* Bounds of the model.                                                    *)

\* Longest sequence of operations explored from an initial DateTuple.
MaxSteps == 2

\* add_days / subtract_days are called with every n in 0..MaxDayArg.
MaxDayArg == 3

\* add_months / subtract_months are called with every n in 0..MaxMonthArg.
MaxMonthArg == 2

---------------------------------------------------------------------------
(* Machine integers.                                                       *)

U16_MODULUS == 65536
U8_MODULUS == 256

\* The largest year a DateTuple or MonthTuple holds.
MAX_YEAR == 9999

\* The largest month index a DateTuple or MonthTuple holds (December).
MAX_MONTH == 11

---------------------------------------------------------------------------
(* date_utils.rs                                                           *)

is_leap_year_every_fourth(year) ==
    year % 4 = 0

is_leap_year(year) ==
    (year % 4 = 0 /\ (year % 100 # 0 \/ year % 400 = 0))

get_last_date_in_month(month, year) ==
    CASE month = 1 -> IF is_leap_year(year) THEN 29 ELSE 28
      [] month \in {0, 2, 4, 6, 7, 9, 11} -> 31
      [] OTHER -> 30

---------------------------------------------------------------------------
(* date_tuple.rs: values and results.                                      *)

DAYS_IN_A_COMMON_YEAR == 365
DAYS_IN_A_LEAP_YEAR == 366

DateTuple(y, m, d) == [y |-> y, m |-> m, d |-> d]

\* Result values.  "Ok" and "Err" are the two arms of Result<DateTuple, String>
\* (Err keeps the rejected triple, which the message prints); "Panic" is a
\* panic unwinding out of the call; "Value" a DateTuple returned by value;
\* "Unit" the return of a &mut self method; "Days" a u32; "Ord" an Ordering
\* ("Less", "Equal", "Greater"); "Bool" a bool ("true", "false").
Ok(date) == [tag |-> "Ok", date |-> date, n |-> 0, s |-> ""]
Err(date) == [tag |-> "Err", date |-> date, n |-> 0, s |-> ""]
Value(date) == [tag |-> "Value", date |-> date, n |-> 0, s |-> ""]
Panic == [tag |-> "Panic", date |-> DateTuple(0, 0, 0), n |-> 0, s |-> ""]
Unit == [tag |-> "Unit", date |-> DateTuple(0, 0, 0), n |-> 0, s |-> ""]
Days(n) == [tag |-> "Days", date |-> DateTuple(0, 0, 0), n |-> n, s |-> ""]
Ord(s) == [tag |-> "Ord", date |-> DateTuple(0, 0, 0), n |-> 0, s |-> s]
Bool(b) == [tag |-> "Bool", date |-> DateTuple(0, 0, 0), n |-> 0,
            s |-> IF b THEN "true" ELSE "false"]

DateTuple_new(y, m, d) ==
    IF y > MAX_YEAR THEN Err(DateTuple(y, m, d))
    ELSE IF m <= MAX_MONTH
         THEN IF d = 0 \/ d > get_last_date_in_month(m, y)
              THEN Err(DateTuple(y, m, d))
              ELSE Ok(DateTuple(y, m, d))
         ELSE Err(DateTuple(y, m, d))

max_value == DateTuple_new(9999, 11, 31).date

next_date_no_year_roll(s) ==
    IF s.y = 9999 /\ s.m = 11 /\ s.d = 31 THEN s
    ELSE IF s.d = get_last_date_in_month(s.m, s.y)
         THEN DateTuple(s.y, s.m + 1, 1)
         ELSE DateTuple(s.y, s.m, s.d + 1)

next_date(s) ==
    IF s.y = 9999 /\ s.m = 11 /\ s.d = 31 THEN s
    ELSE IF s.d = get_last_date_in_month(s.m, s.y)
         THEN IF s.m = 11
              THEN DateTuple(s.y + 1, 0, 1)
              ELSE DateTuple(s.y, s.m + 1, 1)
         ELSE DateTuple(s.y, s.m, s.d + 1)

previous_date_to_day_30(s) ==
    IF s.y = 0 /\ s.m = 0 /\ s.d = 1 THEN s
    ELSE IF s.d = 1
         THEN IF s.m = 0
              THEN DateTuple(s.y - 1, 11, get_last_date_in_month(11, s.y - 1))
              ELSE DateTuple(s.y, s.m - 1, 30)
         ELSE DateTuple(s.y, s.m, s.d - 1)

previous_date(s) ==
    IF s.y = 0 /\ s.m = 0 /\ s.d = 1 THEN s
    ELSE IF s.d = 1
         THEN IF s.m = 0
              THEN DateTuple(s.y - 1, 11, get_last_date_in_month(11, s.y - 1))
              ELSE DateTuple(s.y, s.m - 1, get_last_date_in_month(s.m - 1, s.y))
         ELSE DateTuple(s.y, s.m, s.d - 1)

---------------------------------------------------------------------------
(* month_tuple.rs: the part DateTuple's month arithmetic calls.            *)

MonthTuple(y, m) == [y |-> y, m |-> m]

\* impl From<DateTuple> for MonthTuple
MonthTuple_from(date) == MonthTuple(date.y, date.m)

next_month_no_year_roll(s) ==
    IF s.y = 9999 /\ s.m = 11 THEN s
    ELSE MonthTuple(s.y, s.m + 1)

next_month(s) ==
    IF s.y = 9999 /\ s.m = 11 THEN s
    ELSE IF s.m = 11
         THEN MonthTuple(s.y + 1, 0)
         ELSE MonthTuple(s.y, s.m + 1)

previous_month(s) ==
    IF s.y = 0 /\ s.m = 0 THEN s
    ELSE IF s.m = 0
         THEN MonthTuple(s.y - 1, 11)
         ELSE MonthTuple(s.y, s.m - 1)

\* for _ in 0..months { *self = self.next_month(); }
\* The loop's state is [self, i], i the turns taken; at most `turns` more
\* turns are taken from st, split in halves to keep the evaluation shallow.
RECURSIVE add_months_loop(_, _, _)
add_months_loop(st, months, turns) ==
    IF st.i >= months THEN st
    ELSE IF turns <= 1 THEN [self |-> next_month(st.self), i |-> st.i + 1]
    ELSE add_months_loop(add_months_loop(st, months, turns \div 2),
                         months, turns - (turns \div 2))

MonthTuple_add_months(s, months) ==
    add_months_loop([self |-> s, i |-> 0], months, months).self

\* for _ in 0..months { *self = self.previous_month(); }
RECURSIVE subtract_months_loop(_, _, _)
subtract_months_loop(st, months, turns) ==
    IF st.i >= months THEN st
    ELSE IF turns <= 1 THEN [self |-> previous_month(st.self), i |-> st.i + 1]
    ELSE subtract_months_loop(subtract_months_loop(st, months, turns \div 2),
                              months, turns - (turns \div 2))

MonthTuple_subtract_months(s, months) ==
    subtract_months_loop([self |-> s, i |-> 0], months, months).self

\* The u16 sum self.y + years of add_years (month_tuple.rs:120 and
\* date_tuple.rs:182): [panic, v].  Past 65535 it panics under overflow
\* checks and wraps without them.
U16Add(a, b, checks) ==
    IF a + b >= U16_MODULUS
    THEN IF checks THEN [panic |-> TRUE, v |-> 0]
                   ELSE [panic |-> FALSE, v |-> (a + b) % U16_MODULUS]
    ELSE [panic |-> FALSE, v |-> a + b]

\* MonthTuple::add_years: [panic, month].
MonthTuple_add_years(s, years, checks) ==
    LET sum == U16Add(s.y, years, checks)
        new_years == IF sum.v > 9999 THEN 9999 ELSE sum.v
    IN  IF sum.panic THEN [panic |-> TRUE, month |-> s]
        ELSE [panic |-> FALSE, month |-> MonthTuple(new_years, s.m)]

\* MonthTuple::subtract_years: the difference is taken in i32, where it fits.
MonthTuple_subtract_years(s, years) ==
    LET diff == s.y - years
        new_years == IF diff < 0 THEN 0 ELSE diff
    IN  MonthTuple(new_years % U16_MODULUS, s.m)

---------------------------------------------------------------------------
(* date_tuple.rs: arithmetic.                                              *)

\* for _ in 0..days { *self = self.next_date(); }
RECURSIVE add_days_loop(_, _, _)
add_days_loop(st, days, turns) ==
    IF st.i >= days THEN st
    ELSE IF turns <= 1 THEN [self |-> next_date(st.self), i |-> st.i + 1]
    ELSE add_days_loop(add_days_loop(st, days, turns \div 2),
                       days, turns - (turns \div 2))

add_days_once(s, days) ==
    IF days = 0 THEN s ELSE next_date(s)

add_days(s, days) ==
    add_days_loop([self |-> s, i |-> 0], days, days).self

\* for _ in 0..days { *self = self.previous_date(); }
RECURSIVE subtract_days_loop(_, _, _)
subtract_days_loop(st, days, turns) ==
    IF st.i >= days THEN st
    ELSE IF turns <= 1 THEN [self |-> previous_date(st.self), i |-> st.i + 1]
    ELSE subtract_days_loop(subtract_days_loop(st, days, turns \div 2),
                            days, turns - (turns \div 2))

subtract_days(s, days) ==
    subtract_days_loop([self |-> s, i |-> 0], days, days).self

add_months_no_clamp(s, months) ==
    LET new_month == MonthTuple_add_months(MonthTuple_from(s), months)
    IN  DateTuple(new_month.y, new_month.m, s.d)

add_months(s, months) ==
    LET new_month == MonthTuple_add_months(MonthTuple_from(s), months)
        last_date_in_month == get_last_date_in_month(new_month.m, new_month.y)
        d == IF s.d > last_date_in_month THEN last_date_in_month ELSE s.d
    IN  DateTuple(new_month.y, new_month.m, d)

subtract_months(s, months) ==
    LET new_month == MonthTuple_subtract_months(MonthTuple_from(s), months)
        last_date_in_month == get_last_date_in_month(new_month.m, new_month.y)
        d == IF s.d > last_date_in_month THEN last_date_in_month ELSE s.d
    IN  DateTuple(new_month.y, new_month.m, d)

\* DateTuple::add_years: [panic, date].
add_years(s, years, checks) ==
    LET sum == U16Add(s.y, years, checks)
        new_years == IF sum.v > 9999 THEN 9999 ELSE sum.v
        d == IF s.m = 1 /\ s.d = 29 /\ ~is_leap_year(new_years) THEN 28 ELSE s.d
    IN  IF sum.panic THEN [panic |-> TRUE, date |-> s]
        ELSE [panic |-> FALSE, date |-> DateTuple(new_years, s.m, d)]

subtract_years(s, years) ==
    LET diff == s.y - years
        new_years == (IF diff < 0 THEN 0 ELSE diff) % U16_MODULUS
        d == IF s.m = 1 /\ s.d = 29 /\ ~is_leap_year(new_years) THEN 28 ELSE s.d
    IN  DateTuple(new_years, s.m, d)

---------------------------------------------------------------------------
(* date_tuple.rs: the day count.                                           *)

\* if date_utils::is_leap_year(y) { DAYS_IN_A_LEAP_YEAR } else { DAYS_IN_A_COMMON_YEAR }
days_in_year(y) ==
    IF is_leap_year(y) THEN DAYS_IN_A_LEAP_YEAR ELSE DAYS_IN_A_COMMON_YEAR

\* The running total of to_days' first loop, for y in lo..hi-1, after each
\* year: a sequence of hi - lo totals.  Built in halves.
RECURSIVE YearTotals(_, _)
YearTotals(lo, hi) ==
    IF hi - lo = 1 THEN <<days_in_year(lo)>>
    ELSE LET mid == (lo + hi) \div 2
             left == YearTotals(lo, mid)
             right == YearTotals(mid, hi)
         IN  left \o [i \in 1..(hi - mid) |-> left[mid - lo] + right[i]]

\* total_days after `for y in 0..self.y`, for every year a DateTuple holds.
TotalDaysAfterYears == YearTotals(0, MAX_YEAR)

\* for m in 0..self.m { total_days += get_last_date_in_month(m, self.y) }
RECURSIVE to_days_months(_, _)
to_days_months(m, y) ==
    IF m = 0 THEN 0
    ELSE to_days_months(m - 1, y) + get_last_date_in_month(m - 1, y)

to_days_from_zero(s) ==
    (IF s.y = 0 THEN 0 ELSE TotalDaysAfterYears[s.y])
    + to_days_months(s.m, s.y) + s.d - 1

to_days(s) ==
    (IF s.y = 0 THEN 0 ELSE TotalDaysAfterYears[s.y])
    + to_days_months(s.m, s.y) + s.d

\* from_days' first loop.  Its state is [total_days, years, panic]; one turn:
\*   while total_days > days_in_year(years) {
\*       total_days -= days_in_year(years); years += 1; }
\* years is a u16: at 65535 the increment panics under overflow checks and
\* wraps to 0 without them.
from_days_years_guard(s) ==
    ~s.panic /\ s.total_days > days_in_year(s.years)

from_days_years_body(s, checks) ==
    LET next == U16Add(s.years, 1, checks)
    IN  [total_days |-> s.total_days - days_in_year(s.years),
         years |-> next.v, panic |-> next.panic]

\* At most `turns` turns of the loop from s, split in halves to keep the
\* evaluation shallow; a turn takes at least one day off total_days, so
\* total_days turns run the loop to its end.
RECURSIVE from_days_years(_, _, _)
from_days_years(s, turns, checks) ==
    IF ~from_days_years_guard(s) THEN s
    ELSE IF turns <= 1 THEN from_days_years_body(s, checks)
    ELSE from_days_years(from_days_years(s, turns \div 2, checks),
                         turns - (turns \div 2), checks)

\* from_days' second loop, on [total_days, years, months, panic]:
\*   while total_days > get_last_date_in_month(months, years) {
\*       total_days -= get_last_date_in_month(months, years); months += 1; }
\* months is a u8.
RECURSIVE from_days_months(_, _)
from_days_months(s, checks) ==
    IF s.panic \/ s.total_days <= get_last_date_in_month(s.months, s.years)
    THEN s
    ELSE LET over == s.months + 1 >= U8_MODULUS
         IN  from_days_months(
                 [s EXCEPT !.total_days = @ - get_last_date_in_month(s.months, s.years),
                           !.months = (@ + 1) % U8_MODULUS,
                           !.panic = over /\ checks],
                 checks)

from_days_no_zero_check(total_days, checks) ==
    LET y == from_days_years([total_days |-> total_days, years |-> 0, panic |-> FALSE],
                             total_days, checks)
        m == from_days_months([total_days |-> y.total_days, years |-> y.years,
                               months |-> 0, panic |-> y.panic], checks)
    IN  IF m.panic THEN Panic
        ELSE IF total_days = 0 THEN Ok(DateTuple(0, 0, 1))
        ELSE DateTuple_new(m.years, m.months, m.total_days % U8_MODULUS)

from_days(total_days, checks) ==
    LET y == from_days_years([total_days |-> total_days, years |-> 0, panic |-> FALSE],
                             total_days, checks)
        m == from_days_months([total_days |-> y.total_days, years |-> y.years,
                               months |-> 0, panic |-> y.panic], checks)
    IN  IF m.panic THEN Panic
        ELSE DateTuple_new(m.years, m.months, m.total_days % U8_MODULUS)

\* impl Add for DateTuple.  The u32 sum of two day counts is at most twice
\* to_days(max_value) and fits.
\* add without its Err arm: out of range, the left operand is returned.
DateTuple_add_unsaturated(s, other, checks) ==
    LET r == from_days(to_days(s) + to_days(other), checks)
    IN  CASE r.tag = "Ok" -> Value(r.date)
          [] r.tag = "Err" -> Value(s)
          [] OTHER -> Panic

DateTuple_add(s, other, checks) ==
    LET r == from_days(to_days(s) + to_days(other), checks)
    IN  CASE r.tag = "Ok" -> Value(r.date)
          [] r.tag = "Err" -> Value(max_value)
          [] OTHER -> Panic

\* impl PartialOrd / Ord for DateTuple; an Ordering is "Less", "Equal" or
\* "Greater", and partial_cmp's Option is always Some.
Ordering(a, b) == IF a < b THEN "Less" ELSE IF a = b THEN "Equal" ELSE "Greater"

partial_cmp_day_first(s, other) ==
    IF s.d = other.d
    THEN IF s.m = other.m THEN Ordering(s.y, other.y) ELSE Ordering(s.m, other.m)
    ELSE Ordering(s.d, other.d)

partial_cmp(s, other) ==
    IF s.y = other.y
    THEN IF s.m = other.m THEN Ordering(s.d, other.d) ELSE Ordering(s.m, other.m)
    ELSE Ordering(s.y, other.y)

cmp(s, other) ==
    IF s.y = other.y
    THEN IF s.m = other.m THEN Ordering(s.d, other.d) ELSE Ordering(s.m, other.m)
    ELSE Ordering(s.y, other.y)

\* #[derive(PartialEq)]: field by field.
eq(s, other) == s.y = other.y /\ s.m = other.m /\ s.d = other.d

---------------------------------------------------------------------------
(* The program: one held DateTuple and the calls made on it.               *)

Arg(n, date) == [n |-> n, date |-> date]
NoArg == Arg(0, DateTuple(0, 0, 0))

\* A call returned: it is recorded, and the program holds `held` after it.
Return(name, a, result, held) ==
    /\ op' = name
    /\ arg' = a
    /\ old' = self
    /\ out' = result
    /\ self' = held
    /\ steps' = steps + 1
    /\ UNCHANGED overflow_checks

\* A panic unwinds out of the program: no call follows it.
Running == out.tag # "Panic"

\* DateTuple::new(y, m, d): the program holds the new value when it is Ok.
New(y, m, d) ==
    LET r == DateTuple_new(y, m, d)
    IN  /\ Running
        /\ Return("new", Arg(0, DateTuple(y, m, d)), r,
                  IF r.tag = "Ok" THEN r.date ELSE self)

\* DateTuple::from_days(n), likewise.
FromDays(n) ==
    LET r == from_days(n, overflow_checks)
    IN  /\ Running
        /\ Return("from_days", Arg(n, DateTuple(0, 0, 0)), r,
                  IF r.tag = "Ok" THEN r.date ELSE self)

ToDays ==
    /\ Running
    /\ Return("to_days", NoArg, Days(to_days(self)), self)

\* self = self.next_date()
NextDate ==
    /\ Running
    /\ Return("next_date", NoArg, Value(next_date(self)), next_date(self))

\* self = self.previous_date()
PreviousDate ==
    /\ Running
    /\ Return("previous_date", NoArg, Value(previous_date(self)), previous_date(self))

AddDays(n) ==
    /\ Running
    /\ Return("add_days", Arg(n, DateTuple(0, 0, 0)), Unit, add_days(self, n))

SubtractDays(n) ==
    /\ Running
    /\ Return("subtract_days", Arg(n, DateTuple(0, 0, 0)), Unit, subtract_days(self, n))

AddMonths(n) ==
    /\ Running
    /\ Return("add_months", Arg(n, DateTuple(0, 0, 0)), Unit, add_months(self, n))

SubtractMonths(n) ==
    /\ Running
    /\ Return("subtract_months", Arg(n, DateTuple(0, 0, 0)), Unit, subtract_months(self, n))

AddYears(n) ==
    LET r == add_years(self, n, overflow_checks)
    IN  /\ Running
        /\ Return("add_years", Arg(n, DateTuple(0, 0, 0)),
                  IF r.panic THEN Panic ELSE Unit, r.date)

SubtractYears(n) ==
    /\ Running
    /\ Return("subtract_years", Arg(n, DateTuple(0, 0, 0)), Unit, subtract_years(self, n))

\* self = self + other
AddDate(other) ==
    LET r == DateTuple_add(self, other, overflow_checks)
    IN  /\ Running
        /\ Return("add", Arg(0, other), r, IF r.tag = "Value" THEN r.date ELSE self)

PartialCmp(other) ==
    /\ Running
    /\ Return("partial_cmp", Arg(0, other), Ord(partial_cmp(self, other)), self)

Cmp(other) ==
    /\ Running
    /\ Return("cmp", Arg(0, other), Ord(cmp(self, other)), self)

Eq(other) ==
    /\ Running
    /\ Return("eq", Arg(0, other), Bool(eq(self, other)), self)

---------------------------------------------------------------------------
(* Spec: sequences of calls on a DateTuple.                                *)

\* The DateTuples a run starts from: the first date, the end of February in
\* leap and common years, a year end and a 31-day month.  The last date is
\* reached from year 0 by add_years.
InitTriples ==
    { <<0, 0, 1>>, <<0, 1, 29>>, <<1, 1, 28>>, <<4, 11, 31>>, <<100, 0, 31>> }

SeqDayArgs == {1, MaxDayArg}
SeqMonthArgs == {1, 11 + MaxMonthArg}
SeqYearArgs == {1, 4, 65535}
SeqNewTriples == { <<100, 1, 29>>, <<4, 1, 29>>, <<9999, 12, 31>> }
SeqDayCounts == {0, 60}
SeqOthers == { DateTuple(0, 0, 28) }

Init ==
    /\ overflow_checks \in BOOLEAN
    /\ \E t \in InitTriples :
          /\ DateTuple_new(t[1], t[2], t[3]).tag = "Ok"
          /\ self = DateTuple_new(t[1], t[2], t[3]).date
          /\ arg = Arg(0, DateTuple(t[1], t[2], t[3]))
    /\ op = "init"
    /\ old = self
    /\ out = Ok(self)
    /\ steps = 0

More == steps < MaxSteps

Next ==
    \/ More /\ \E t \in SeqNewTriples : New(t[1], t[2], t[3])
    \/ More /\ \E n \in SeqDayCounts : FromDays(n)
    \/ More /\ NextDate
    \/ More /\ PreviousDate
    \/ More /\ \E n \in SeqDayArgs : AddDays(n)
    \/ More /\ \E n \in SeqDayArgs : SubtractDays(n)
    \/ More /\ \E n \in SeqMonthArgs : AddMonths(n)
    \/ More /\ \E n \in SeqMonthArgs : SubtractMonths(n)
    \/ More /\ \E n \in SeqYearArgs : AddYears(n)
    \/ More /\ \E n \in SeqYearArgs : SubtractYears(n)
    \/ More /\ \E o \in SeqOthers : AddDate(o)

Spec == Init /\ [][Next]_vars

---------------------------------------------------------------------------
(* SpecOnce: one call on each DateTuple that DateTuple::new accepts.  The  *)
(* program starts holding max_value(), calls new or from_days, and calls   *)
(* one method on a value new returned; after to_days it may hand the count *)
(* back to from_days.                                                      *)

\* The (u16, u8, u8) triples handed to DateTuple::new: every month and the
\* days around each month's end in the early years, the months around the
\* ends of the year and of February in the late ones.
NewTriples ==
    ({0, 1, 4, 100} \X (0..13 \cup {255}) \X {0, 1, 28, 29, 30, 31, 32, 255})
    \cup ({2000} \X {0, 1, 6, 11, 12} \X {0, 1, 29, 31, 32})
    \cup ({9999, 10000, 65535} \X {0, 11, 12} \X {1, 31, 32})

\* The u32 day counts handed to DateTuple::from_days.  to_days(max_value)
\* is 3652425; the years 0..65535 hold 23936532 days, so 23936533 is the first
\* count that takes the u16 year counter past 65535.
DayCounts ==
    {0, 1, 2, 31, 32, 59, 60, 61, 366, 367, 730545, 3652425, 3652426,
     23936533}

DayArgs == 0..MaxDayArg \cup {31}
MonthArgs == 0..MaxMonthArg \cup {11, 12, 13}
YearArgs == {0, 1, 4, 100, 9999, 55537, 65535}
Others ==
    { DateTuple(0, 0, 1), DateTuple(0, 0, 28), DateTuple(4, 1, 29),
      DateTuple(100, 1, 1), DateTuple(2000, 1, 29), DateTuple(2000, 2, 1),
      DateTuple(9999, 11, 31) }
AddOthers == { DateTuple(0, 0, 28) }

InitOnce ==
    /\ overflow_checks \in BOOLEAN
    /\ self = max_value
    /\ op = "init"
    /\ arg = NoArg
    /\ old = self
    /\ out = Ok(self)
    /\ steps = 0

Start == steps = 0
Constructed == steps = 1 /\ op = "new" /\ out.tag = "Ok"
Counted == steps = 2 /\ op = "to_days"

NextOnce ==
    \/ Start /\ \E t \in NewTriples : New(t[1], t[2], t[3])
    \/ Start /\ \E n \in DayCounts : FromDays(n)
    \/ Constructed /\ ToDays
    \/ Constructed /\ NextDate
    \/ Constructed /\ PreviousDate
    \/ Constructed /\ \E n \in DayArgs : AddDays(n)
    \/ Constructed /\ \E n \in DayArgs : SubtractDays(n)
    \/ Constructed /\ \E n \in MonthArgs : AddMonths(n)
    \/ Constructed /\ \E n \in MonthArgs : SubtractMonths(n)
    \/ Constructed /\ \E n \in YearArgs : AddYears(n)
    \/ Constructed /\ \E n \in YearArgs : SubtractYears(n)
    \/ Constructed /\ \E o \in AddOthers : AddDate(o)
    \/ Constructed /\ \E o \in Others : PartialCmp(o)
    \/ Constructed /\ \E o \in Others : Cmp(o)
    \/ Constructed /\ \E o \in Others : Eq(o)
    \/ Counted /\ FromDays(out.n)

SpecOnce == InitOnce /\ [][NextOnce]_vars

---------------------------------------------------------------------------
(* Text.  A String is the sequence of its characters, each a one-character *)
(* string.  The characters are ASCII but for one, ARABIC_INDIC_THREE,      *)
(* which stands for the decimal digits outside ASCII: the regex crate's \d *)
(* is the Unicode class Nd and matches them, the integer parsers of std    *)
(* accept ASCII digits only.                                               *)

DIGITS == <<"0", "1", "2", "3", "4", "5", "6", "7", "8", "9">>

IsDigit(c) == \E i \in 1..10 : DIGITS[i] = c

ARABIC_INDIC_THREE == "U+0663"

\* The regular expression \d on one character.
MatchesDigit(c) == IsDigit(c) \/ c = ARABIC_INDIC_THREE

DigitValue(c) == (CHOOSE i \in 1..10 : DIGITS[i] = c) - 1

\* The decimal digits of n >= 0, as format!("{}", n) writes them.
RECURSIVE Decimal(_)
Decimal(n) ==
    IF n < 10 THEN <<DIGITS[n + 1]>>
    ELSE Decimal(n \div 10) \o <<DIGITS[(n % 10) + 1]>>

\* text padded on the left with zeros to at least width characters.
RECURSIVE ZeroPad(_, _)
ZeroPad(text, width) ==
    IF Len(text) >= width THEN text ELSE ZeroPad(<<"0">> \o text, width)

\* format!("{:0width$}", n)
Padded(n, width) == ZeroPad(Decimal(n), width)

\* \d{n}: text[from..from + n - 1] exist and are digits.
DigitsAt(text, from, n) ==
    /\ Len(text) >= from + n - 1
    /\ \A i \in from..(from + n - 1) : MatchesDigit(text[i])

\* The number a run of digits denotes.
RECURSIVE DigitsValue(_)
DigitsValue(text) ==
    IF text = <<>> THEN 0
    ELSE 10 * DigitsValue(SubSeq(text, 1, Len(text) - 1)) + DigitValue(text[Len(text)])

\* u16::from_str / u8::from_str / u32::from_str on text, for an unsigned
\* type of the given modulus: [ok, v].  It fails on an empty text, on a
\* character that is no digit and on a number the type cannot hold.
UnsignedFromStr(text, modulus) ==
    IF text # <<>> /\ (\A i \in 1..Len(text) : IsDigit(text[i]))
       /\ Len(text) <= 9 /\ DigitsValue(text) < modulus
    THEN [ok |-> TRUE, v |-> DigitsValue(text)]
    ELSE [ok |-> FALSE, v |-> 0]

---------------------------------------------------------------------------
(* month_tuple.rs: construction and text.                                  *)

MONTH_STRINGS ==
    << <<"J", "a", "n">>, <<"F", "e", "b">>, <<"M", "a", "r">>, <<"A", "p", "r">>,
       <<"M", "a", "y">>, <<"J", "u", "n">>, <<"J", "u", "l">>, <<"A", "u", "g">>,
       <<"S", "e", "p">>, <<"O", "c", "t">>, <<"N", "o", "v">>, <<"D", "e", "c">> >>

\* Results that hold a MonthTuple or a String; the shape is that of Ok/Err.
OkMonth(month) == [tag |-> "Ok", date |-> month, n |-> 0, s |-> ""]
ErrMonth(month) == [tag |-> "Err", date |-> month, n |-> 0, s |-> ""]
Text(text) == [tag |-> "String", date |-> DateTuple(0, 0, 0), n |-> 0, s |-> text]

MonthTuple_new(y, m) ==
    IF m <= MAX_MONTH
    THEN IF y <= MAX_YEAR THEN OkMonth(MonthTuple(y, m)) ELSE ErrMonth(MonthTuple(y, m))
    ELSE ErrMonth(MonthTuple(y, m))

\* MonthTuple::to_readable_string: [panic, s].  The month is looked up in
\* MONTH_STRINGS by its index; an index past the table panics.
MonthTuple_to_readable_string(s) ==
    IF s.m < Len(MONTH_STRINGS)
    THEN [panic |-> FALSE, s |-> MONTH_STRINGS[s.m + 1] \o <<" ">> \o Padded(s.y, 4)]
    ELSE [panic |-> TRUE, s |-> <<>>]

\* impl Display for MonthTuple: write!(f, "{:04}{:02}", self.y, self.m)
MonthTuple_to_string(s) == Padded(s.y, 4) \o Padded(s.m, 2)

\* impl FromStr for MonthTuple.  The two regular expressions are
\* ^\d{4}-\d{2}$ and ^\d{6}$.  The fields are cut at byte offsets and read
\* with from_str(..).unwrap(): a digit outside ASCII in a text that matches
\* is either split by a cut or left in a field, and both panic.
MonthTuple_from_str(text) ==
    LET valid_format ==
            /\ Len(text) = 7
            /\ DigitsAt(text, 1, 4)
            /\ text[5] = "-"
            /\ DigitsAt(text, 6, 2)
        legacy_format == Len(text) = 6 /\ DigitsAt(text, 1, 6)
        fields == IF valid_format
                  THEN <<UnsignedFromStr(SubSeq(text, 1, 4), U16_MODULUS),
                         UnsignedFromStr(SubSeq(text, 6, 7), U8_MODULUS)>>
                  ELSE <<UnsignedFromStr(SubSeq(text, 1, 4), U16_MODULUS),
                         UnsignedFromStr(SubSeq(text, 5, 6), U8_MODULUS)>>
    IN  IF ~(valid_format \/ legacy_format) THEN ErrMonth(MonthTuple(0, 0))
        ELSE IF ~(fields[1].ok /\ fields[2].ok) THEN Panic
        ELSE MonthTuple_new(fields[1].v, fields[2].v)

---------------------------------------------------------------------------
(* date_tuple.rs: text.                                                    *)

\* DateTuple::to_readable_string: format!("{} {}", self.d, month.to_readable_string())
to_readable_string(s) ==
    LET month == MonthTuple_to_readable_string(MonthTuple_from(s))
    IN  [panic |-> month.panic, s |-> Decimal(s.d) \o <<" ">> \o month.s]

\* impl Display for DateTuple: write!(f, "{:04}-{:02}-{:02}", self.y, self.m, self.d)
to_string_unpadded(s) ==
    Decimal(s.y) \o <<"-">> \o Decimal(s.m) \o <<"-">> \o Decimal(s.d)

to_string(s) ==
    Padded(s.y, 4) \o <<"-">> \o Padded(s.m, 2) \o <<"-">> \o Padded(s.d, 2)

\* impl FromStr for DateTuple.  The two regular expressions are
\* ^\d{4}-\d{2}-\d{2}$ and ^\d{8}$.  The fields are cut at byte offsets and
\* read with from_str(..).unwrap(): a digit outside ASCII in a text that
\* matches is either split by a cut or left in a field, and both panic.
from_str(text) ==
    LET valid_format ==
            /\ Len(text) = 10
            /\ DigitsAt(text, 1, 4)
            /\ text[5] = "-"
            /\ DigitsAt(text, 6, 2)
            /\ text[8] = "-"
            /\ DigitsAt(text, 9, 2)
        legacy_format == Len(text) = 8 /\ DigitsAt(text, 1, 8)
        fields == IF valid_format
                  THEN <<UnsignedFromStr(SubSeq(text, 1, 4), U16_MODULUS),
                         UnsignedFromStr(SubSeq(text, 6, 7), U8_MODULUS),
                         UnsignedFromStr(SubSeq(text, 9, 10), U8_MODULUS)>>
                  ELSE <<UnsignedFromStr(SubSeq(text, 1, 4), U16_MODULUS),
                         UnsignedFromStr(SubSeq(text, 5, 6), U8_MODULUS),
                         UnsignedFromStr(SubSeq(text, 7, 8), U8_MODULUS)>>
    IN  IF ~(valid_format \/ legacy_format) THEN Err(DateTuple(0, 0, 0))
        ELSE IF ~(fields[1].ok /\ fields[2].ok /\ fields[3].ok) THEN Panic
        ELSE DateTuple_new(fields[1].v, fields[2].v, fields[3].v)

---------------------------------------------------------------------------
(* SpecCalendar: date_utils.rs called for every year a DateTuple holds and *)
(* every month of it, in order: is_leap_year(y), then                      *)
(* get_last_date_in_month(m, y) for m = 0..11, then the next year.  The    *)
(* program holds the first day of the month it last asked about.           *)

IsLeapYear(year) ==
    Return("is_leap_year", Arg(year, DateTuple(year, 0, 1)),
           Bool(is_leap_year(year)), DateTuple(year, 0, 1))

GetLastDateInMonth(month, year) ==
    Return("get_last_date_in_month", Arg(month, DateTuple(year, month, 1)),
           Days(get_last_date_in_month(month, year)), DateTuple(year, month, 1))

InitCalendar ==
    /\ overflow_checks \in BOOLEAN
    /\ self = DateTuple(0, 0, 1)
    /\ op = "is_leap_year"
    /\ arg = Arg(0, DateTuple(0, 0, 1))
    /\ old = self
    /\ out = Bool(is_leap_year(0))
    /\ steps = 0

NextCalendar ==
    \/ /\ op = "is_leap_year"
       /\ GetLastDateInMonth(0, self.y)
    \/ /\ op = "get_last_date_in_month"
       /\ self.m < MAX_MONTH
       /\ GetLastDateInMonth(self.m + 1, self.y)
    \/ /\ op = "get_last_date_in_month"
       /\ self.m = MAX_MONTH
       /\ self.y < MAX_YEAR
       /\ IsLeapYear(self.y + 1)

SpecCalendar == InitCalendar /\ [][NextCalendar]_vars

---------------------------------------------------------------------------
(* SpecMonth: sequences of calls on a MonthTuple.  Here self is the        *)
(* MonthTuple the program holds.                                           *)

\* The argument of a call that takes a string.
ArgText(text) == [n |-> 0, date |-> DateTuple(0, 0, 0), s |-> text]

MonthNew(y, m) ==
    LET r == MonthTuple_new(y, m)
    IN  /\ Running
        /\ Return("MonthTuple::new", Arg(0, MonthTuple(y, m)), r,
                  IF r.tag = "Ok" THEN r.date ELSE self)

\* self = self.next_month()
NextMonth ==
    /\ Running
    /\ Return("next_month", NoArg, Value(next_month(self)), next_month(self))

\* self = self.previous_month()
PreviousMonth ==
    /\ Running
    /\ Return("previous_month", NoArg, Value(previous_month(self)), previous_month(self))

MonthAddMonths(n) ==
    /\ Running
    /\ Return("MonthTuple::add_months", Arg(n, DateTuple(0, 0, 0)), Unit,
              MonthTuple_add_months(self, n))

MonthSubtractMonths(n) ==
    /\ Running
    /\ Return("MonthTuple::subtract_months", Arg(n, DateTuple(0, 0, 0)), Unit,
              MonthTuple_subtract_months(self, n))

MonthAddYears(n) ==
    LET r == MonthTuple_add_years(self, n, overflow_checks)
    IN  /\ Running
        /\ Return("MonthTuple::add_years", Arg(n, DateTuple(0, 0, 0)),
                  IF r.panic THEN Panic ELSE Unit, r.month)

MonthSubtractYears(n) ==
    /\ Running
    /\ Return("MonthTuple::subtract_years", Arg(n, DateTuple(0, 0, 0)), Unit,
              MonthTuple_subtract_years(self, n))

MonthToString ==
    /\ Running
    /\ Return("MonthTuple::to_string", NoArg, Text(MonthTuple_to_string(self)), self)

MonthToReadableString ==
    LET r == MonthTuple_to_readable_string(self)
    IN  /\ Running
        /\ Return("MonthTuple::to_readable_string", NoArg,
                  IF r.panic THEN Panic ELSE Text(r.s), self)

\* self = text.parse()?, the program keeping its MonthTuple on an Err.
MonthFromStr(text) ==
    LET r == MonthTuple_from_str(text)
    IN  /\ Running
        /\ Return("MonthTuple::from_str", ArgText(text), r,
                  IF r.tag = "Ok" THEN r.date ELSE self)

\* The MonthTuples a run starts from: both ends of the range, both ends of
\* a year, a month in the middle.
InitMonths ==
    { <<0, 0>>, <<0, 11>>, <<1, 0>>, <<2000, 5>>, <<2000, 11>>, <<9998, 11>>,
      <<9999, 0>>, <<9999, 11>> }

\* The (u16, u8) pairs handed to MonthTuple::new.
NewMonths == {0, 2000, 9999, 10000} \X {0, 5, 11, 12, 13}

\* The strings handed to the parser, besides the ones to_string wrote:
\* "2000-05", "200005", "2000-12", "200015", "200O05", "2000-5", "" and
\* "10000-01".
MonthTexts ==
    { <<"2", "0", "0", "0", "-", "0", "5">>,
      <<"2", "0", "0", "0", "0", "5">>,
      <<"2", "0", "0", "0", "-", "1", "2">>,
      <<"2", "0", "0", "0", "1", "5">>,
      <<"2", "0", "0", "O", "0", "5">>,
      <<"2", "0", "0", ARABIC_INDIC_THREE, "-", "0", "5">>,
      <<"2", "0", "0", "0", "-", "5">>,
      <<>>,
      <<"1", "0", "0", "0", "0", "-", "0", "1">> }

InitMonth ==
    /\ overflow_checks \in BOOLEAN
    /\ \E p \in InitMonths :
          /\ MonthTuple_new(p[1], p[2]).tag = "Ok"
          /\ self = MonthTuple_new(p[1], p[2]).date
          /\ arg = Arg(0, MonthTuple(p[1], p[2]))
    /\ op = "init"
    /\ old = self
    /\ out = OkMonth(self)
    /\ steps = 0

NextMonthTuple ==
    \/ More /\ \E p \in NewMonths : MonthNew(p[1], p[2])
    \/ More /\ NextMonth
    \/ More /\ PreviousMonth
    \/ More /\ \E n \in MonthArgs : MonthAddMonths(n)
    \/ More /\ \E n \in MonthArgs : MonthSubtractMonths(n)
    \/ More /\ \E n \in SeqYearArgs : MonthAddYears(n)
    \/ More /\ \E n \in SeqYearArgs : MonthSubtractYears(n)
    \/ More /\ MonthToString
    \/ More /\ MonthToReadableString
    \/ More /\ \E text \in MonthTexts : MonthFromStr(text)
    \/ op = "MonthTuple::to_string" /\ MonthFromStr(out.s)

SpecMonth == InitMonth /\ [][NextMonthTuple]_vars

---------------------------------------------------------------------------
(* Machine integers wider than the model checker's.  A sum or product of   *)
(* i32 or u32 values is computed exactly as the pair [hi, lo] that stands  *)
(* for hi * 65536 + lo, with lo in 0..65535; the type's range is a range   *)
(* of hi, and wrapping keeps the low 16 bits of hi.                        *)

I32_MAX == 2147483647
I32_MIN == -I32_MAX - 1

LIMB == U16_MODULUS

\* [hi, lo] with the excess of lo carried into hi.
WideCarry(hi, lo) == [hi |-> hi + (lo \div LIMB), lo |-> lo % LIMB]

Wide(a) == WideCarry(0, a)

\* c * a for a small factor c (60 or 3600), a + b and a - b, exactly.
WideScale(c, a) == WideCarry(c * Wide(a).hi, c * Wide(a).lo)
WideSum(a, b) == WideCarry(Wide(a).hi + Wide(b).hi, Wide(a).lo + Wide(b).lo)
WideDiff(a, b) == WideCarry(Wide(a).hi - Wide(b).hi, Wide(a).lo - Wide(b).lo)

\* An i32 result: [panic, v].  A value outside the type panics under
\* overflow checks and wraps (two's complement) without them.
I32(w, checks) ==
    IF -(LIMB \div 2) <= w.hi /\ w.hi < LIMB \div 2
    THEN [panic |-> FALSE, v |-> w.hi * LIMB + w.lo]
    ELSE IF checks THEN [panic |-> TRUE, v |-> 0]
    ELSE [panic |-> FALSE,
          v |-> (((w.hi + LIMB \div 2) % LIMB) - LIMB \div 2) * LIMB + w.lo]

\* A u8 result of a + b or a - b, likewise.
U8(v, checks) ==
    IF 0 <= v /\ v < U8_MODULUS THEN [panic |-> FALSE, v |-> v]
    ELSE IF checks THEN [panic |-> TRUE, v |-> 0]
    ELSE [panic |-> FALSE, v |-> v % U8_MODULUS]

---------------------------------------------------------------------------
(* time_tuple.rs: TimeTuple.                                               *)

SECONDS_IN_A_DAY == 86400
SECONDS_IN_AN_HOUR == 3600
SECONDS_IN_A_MINUTE == 60

TimeTuple(h, m, s) == [h |-> h, m |-> m, s |-> s]

\* A TimeTuple returned by value, and a panic in a call that returns one:
\* [panic, time].
Time(t) == [panic |-> FALSE, time |-> t]
TimePanic == [panic |-> TRUE, time |-> TimeTuple(0, 0, 0)]

\* while total_seconds < 0 { total_seconds += 86400; }
\* At most `turns` turns from total_seconds, split in halves.
RECURSIVE new_loop(_, _)
new_loop(total_seconds, turns) ==
    IF total_seconds >= 0 THEN total_seconds
    ELSE IF turns <= 1 THEN total_seconds + SECONDS_IN_A_DAY
    ELSE new_loop(new_loop(total_seconds, turns \div 2), turns - (turns \div 2))

\* while total_seconds >= 86400 { total_seconds -= 86400; }
RECURSIVE from_seconds_loop(_, _)
from_seconds_loop(total_seconds, turns) ==
    IF total_seconds < SECONDS_IN_A_DAY THEN total_seconds
    ELSE IF turns <= 1 THEN total_seconds - SECONDS_IN_A_DAY
    ELSE from_seconds_loop(from_seconds_loop(total_seconds, turns \div 2),
                           turns - (turns \div 2))

\* from_seconds without its loop: the fields of the total as given.
TimeTuple_from_seconds_no_wrap(total_seconds) ==
    LET h == total_seconds \div SECONDS_IN_AN_HOUR
        after_h == total_seconds - h * SECONDS_IN_AN_HOUR
        m == after_h \div SECONDS_IN_A_MINUTE
        after_m == after_h - m * SECONDS_IN_A_MINUTE
    IN  TimeTuple(h % U8_MODULUS, m % U8_MODULUS, after_m % U8_MODULUS)

\* TimeTuple::from_seconds(total_seconds: u64); a turn of its loop takes a
\* day off, so total_seconds / 86400 + 1 turns run it to its end.
TimeTuple_from_seconds(total_seconds) ==
    LET in_day == from_seconds_loop(total_seconds,
                                    total_seconds \div SECONDS_IN_A_DAY + 1)
        h == in_day \div SECONDS_IN_AN_HOUR
        after_h == in_day - h * SECONDS_IN_AN_HOUR
        m == after_h \div SECONDS_IN_A_MINUTE
        after_m == after_h - m * SECONDS_IN_A_MINUTE
    IN  TimeTuple(h % U8_MODULUS, m % U8_MODULUS, after_m % U8_MODULUS)

\* TimeTuple::new(h: i32, m: i32, s: i32): [panic, time].  The sum
\* s + 60 * m + 3600 * h is taken in i32, left to right.
TimeTuple_new(h, m, s, checks) ==
    LET minutes == I32(WideScale(SECONDS_IN_A_MINUTE, m), checks)
        partial == I32(WideSum(s, minutes.v), checks)
        hours == I32(WideScale(SECONDS_IN_AN_HOUR, h), checks)
        total_seconds == I32(WideSum(partial.v, hours.v), checks)
    IN  IF minutes.panic \/ partial.panic \/ hours.panic \/ total_seconds.panic
        THEN TimePanic
        ELSE Time(TimeTuple_from_seconds(
                      new_loop(total_seconds.v,
                               (-(total_seconds.v + 1)) \div SECONDS_IN_A_DAY + 1)))

\* #[derive(PartialEq, Eq)] on TimeTuple: equal field by field.
TimeTuple_eq(s, other) == s.h = other.h /\ s.m = other.m /\ s.s = other.s

TimeTuple_to_seconds(s) ==
    SECONDS_IN_AN_HOUR * s.h + SECONDS_IN_A_MINUTE * s.m + s.s

\* The six mutators: the changed field is computed in i32, then the whole
\* tuple goes through TimeTuple::new.
TimeTuple_mutate(field, h, m, s, checks) ==
    IF field.panic THEN TimePanic ELSE TimeTuple_new(h, m, s, checks)

TimeTuple_add_seconds(s, seconds, checks) ==
    LET new_seconds == I32(WideSum(s.s, seconds), checks)
    IN  TimeTuple_mutate(new_seconds, s.h, s.m, new_seconds.v, checks)

TimeTuple_subtract_seconds(s, seconds, checks) ==
    LET new_seconds == I32(WideDiff(s.s, seconds), checks)
    IN  TimeTuple_mutate(new_seconds, s.h, s.m, new_seconds.v, checks)

TimeTuple_add_minutes(s, minutes, checks) ==
    LET new_minutes == I32(WideSum(s.m, minutes), checks)
    IN  TimeTuple_mutate(new_minutes, s.h, new_minutes.v, s.s, checks)

TimeTuple_subtract_minutes(s, minutes, checks) ==
    LET new_minutes == I32(WideDiff(s.m, minutes), checks)
    IN  TimeTuple_mutate(new_minutes, s.h, new_minutes.v, s.s, checks)

TimeTuple_add_hours(s, hours, checks) ==
    LET new_hours == I32(WideSum(s.h, hours), checks)
    IN  TimeTuple_mutate(new_hours, new_hours.v, s.m, s.s, checks)

TimeTuple_subtract_hours(s, hours, checks) ==
    LET new_hours == I32(WideDiff(s.h, hours), checks)
    IN  TimeTuple_mutate(new_hours, new_hours.v, s.m, s.s, checks)

\* impl Display for TimeTuple: write!(f, "{:02}:{:02}:{:02}", self.h, self.m, self.s)
TimeTuple_to_string(s) ==
    Padded(s.h, 2) \o <<":">> \o Padded(s.m, 2) \o <<":">> \o Padded(s.s, 2)

\* A parser that reports an hour above 23 or a minute or second above 59.
TimeTuple_from_str_strict(text, checks) ==
    LET valid_format ==
            /\ Len(text) = 8
            /\ DigitsAt(text, 1, 2)
            /\ text[3] = ":"
            /\ DigitsAt(text, 4, 2)
            /\ text[6] = ":"
            /\ DigitsAt(text, 7, 2)
        fields == <<UnsignedFromStr(SubSeq(text, 1, 2), I32_MAX),
                    UnsignedFromStr(SubSeq(text, 4, 5), I32_MAX),
                    UnsignedFromStr(SubSeq(text, 7, 8), I32_MAX)>>
        r == TimeTuple_new(fields[1].v, fields[2].v, fields[3].v, checks)
    IN  IF ~valid_format
        THEN [ok |-> FALSE, panic |-> FALSE, time |-> TimeTuple(0, 0, 0)]
        ELSE IF ~(fields[1].ok /\ fields[2].ok /\ fields[3].ok)
        THEN [ok |-> TRUE, panic |-> TRUE, time |-> TimeTuple(0, 0, 0)]
        ELSE IF fields[1].v > 23 \/ fields[2].v > 59 \/ fields[3].v > 59
        THEN [ok |-> FALSE, panic |-> FALSE, time |-> TimeTuple(0, 0, 0)]
        ELSE [ok |-> TRUE, panic |-> r.panic, time |-> r.time]

\* impl FromStr for TimeTuple: [ok, panic, time].  The regular expression
\* is ^\d{2}:\d{2}:\d{2}$; the three fields of a text that matches are two
\* digits each, which i32::from_str(..).unwrap() reads if they are ASCII.
TimeTuple_from_str(text, checks) ==
    LET valid_format ==
            /\ Len(text) = 8
            /\ DigitsAt(text, 1, 2)
            /\ text[3] = ":"
            /\ DigitsAt(text, 4, 2)
            /\ text[6] = ":"
            /\ DigitsAt(text, 7, 2)
        fields == <<UnsignedFromStr(SubSeq(text, 1, 2), I32_MAX),
                    UnsignedFromStr(SubSeq(text, 4, 5), I32_MAX),
                    UnsignedFromStr(SubSeq(text, 7, 8), I32_MAX)>>
        r == TimeTuple_new(fields[1].v, fields[2].v, fields[3].v, checks)
    IN  IF ~valid_format
        THEN [ok |-> FALSE, panic |-> FALSE, time |-> TimeTuple(0, 0, 0)]
        ELSE IF ~(fields[1].ok /\ fields[2].ok /\ fields[3].ok)
        THEN [ok |-> TRUE, panic |-> TRUE, time |-> TimeTuple(0, 0, 0)]
        ELSE [ok |-> TRUE, panic |-> r.panic, time |-> r.time]

\* impl Add / AddAssign / Sub / SubAssign for TimeTuple: the fields are
\* added or subtracted in u8, then handed to TimeTuple::new as i32.
TimeTuple_fieldwise(h, m, s, checks) ==
    IF h.panic \/ m.panic \/ s.panic THEN TimePanic
    ELSE TimeTuple_new(h.v, m.v, s.v, checks)

TimeTuple_add(s, other, checks) ==
    TimeTuple_fieldwise(U8(s.h + other.h, checks), U8(s.m + other.m, checks),
                        U8(s.s + other.s, checks), checks)

TimeTuple_add_assign(s, other, checks) ==
    TimeTuple_fieldwise(U8(s.h + other.h, checks), U8(s.m + other.m, checks),
                        U8(s.s + other.s, checks), checks)

TimeTuple_sub(s, other, checks) ==
    TimeTuple_fieldwise(U8(s.h - other.h, checks), U8(s.m - other.m, checks),
                        U8(s.s - other.s, checks), checks)

TimeTuple_sub_assign(s, other, checks) ==
    TimeTuple_fieldwise(U8(s.h - other.h, checks), U8(s.m - other.m, checks),
                        U8(s.s - other.s, checks), checks)

---------------------------------------------------------------------------
(* Sequences of TimeTuple operations: a constructor (new, from_seconds,    *)
(* from_str), then mutators and operators on the value it returned.  Here  *)
(* self is a TimeTuple, arg.date is the tuple argument and out.date the    *)
(* TimeTuple returned.  A constructor later in a sequence starts over, so  *)
(* the constructors are called once, first.                                *)

\* The call returned the TimeTuple r.time, which the program then holds.
TimeReturn(name, a, r) ==
    /\ Running
    /\ Return(name, a, IF r.panic THEN Panic ELSE Value(r.time),
              IF r.panic THEN self ELSE r.time)

\* The call changed self in place (&mut self) and returned ().
TimeMutate(name, a, r) ==
    /\ Running
    /\ Return(name, a, IF r.panic THEN Panic ELSE Unit,
              IF r.panic THEN self ELSE r.time)

TimeArg(n) == Arg(n, TimeTuple(0, 0, 0))

TimeNew(h, m, s) ==
    TimeReturn("TimeTuple::new", Arg(0, TimeTuple(h, m, s)),
               TimeTuple_new(h, m, s, overflow_checks))

TimeFromSeconds(n) ==
    TimeReturn("TimeTuple::from_seconds", TimeArg(n),
               Time(TimeTuple_from_seconds(n)))

TimeFromStr(text) ==
    LET r == TimeTuple_from_str(text, overflow_checks)
    IN  /\ Running
        /\ Return("TimeTuple::from_str", ArgText(text),
                  IF ~r.ok THEN Err(TimeTuple(0, 0, 0))
                  ELSE IF r.panic THEN Panic ELSE Ok(r.time),
                  IF r.ok /\ ~r.panic THEN r.time ELSE self)

TimeAddSeconds(n) ==
    TimeMutate("TimeTuple::add_seconds", TimeArg(n),
               TimeTuple_add_seconds(self, n, overflow_checks))

TimeSubtractSeconds(n) ==
    TimeMutate("TimeTuple::subtract_seconds", TimeArg(n),
               TimeTuple_subtract_seconds(self, n, overflow_checks))

TimeAddMinutes(n) ==
    TimeMutate("TimeTuple::add_minutes", TimeArg(n),
               TimeTuple_add_minutes(self, n, overflow_checks))

TimeSubtractMinutes(n) ==
    TimeMutate("TimeTuple::subtract_minutes", TimeArg(n),
               TimeTuple_subtract_minutes(self, n, overflow_checks))

TimeAddHours(n) ==
    TimeMutate("TimeTuple::add_hours", TimeArg(n),
               TimeTuple_add_hours(self, n, overflow_checks))

TimeSubtractHours(n) ==
    TimeMutate("TimeTuple::subtract_hours", TimeArg(n),
               TimeTuple_subtract_hours(self, n, overflow_checks))

TimeAdd(other) ==
    TimeReturn("TimeTuple::add", Arg(0, other),
               TimeTuple_add(self, other, overflow_checks))

TimeAddAssign(other) ==
    TimeMutate("TimeTuple::add_assign", Arg(0, other),
               TimeTuple_add_assign(self, other, overflow_checks))

TimeSub(other) ==
    TimeReturn("TimeTuple::sub", Arg(0, other),
               TimeTuple_sub(self, other, overflow_checks))

TimeSubAssign(other) ==
    TimeMutate("TimeTuple::sub_assign", Arg(0, other),
               TimeTuple_sub_assign(self, other, overflow_checks))

\* (h, m, s) given to TimeTuple::new: in range, out of range, negative,
\* and large.  3600 * 596523 is the last multiple of 3600 in i32;
\* 3600 * 1193046 = 2^32 - 1696 and 60 * 71582788 = 2^32 - 16.
TimeTriples ==
    { <<0, 0, 0>>, <<1, 0, 0>>, <<8, 30, 0>>, <<23, 59, 59>>,
      <<25, 90, 90>>, <<2, 31, 30>>, <<-3, -116, -301>>, <<18, 58, 59>>,
      <<24, 0, 0>>, <<0, 0, -1>>, <<0, 1440, 1>>,
      <<596523, 0, 0>>, <<596524, 0, 0>>, <<1193046, 0, 0>>,
      <<0, 71582788, 0>>, <<-1193046, 0, 0>>, <<0, 0, I32_MAX>>,
      <<0, 0, I32_MIN>> }

SecondCounts == {0, 59, 3600, 86399, 86400, 86401, 172800, I32_MAX}

TimeTexts ==
    { <<"0", "8", ":", "3", "0", ":", "0", "0">>,
      <<"2", "3", ":", "5", "9", ":", "5", "9">>,
      <<"2", "5", ":", "9", "0", ":", "9", "0">>,
      <<"9", "9", ":", "9", "9", ":", "9", "9">>,
      <<"8", ":", "3", "0", ":", "0", "0">>,
      <<"0", "8", "-", "3", "0", "-", "0", "0">>,
      <<"0", ARABIC_INDIC_THREE, ":", "3", "0", ":", "0", "0">>,
      <<>> }

SecondArgs == {0, 1, 61, SECONDS_IN_A_DAY, -1, -86401}
MinuteArgs == {0, 1, 61, 1440, -1, 71582788}
HourArgs == {0, 1, 25, -1, 1193046}

OtherTimes ==
    { TimeTuple(0, 0, 0), TimeTuple(0, 30, 0), TimeTuple(1, 0, 0),
      TimeTuple(2, 0, 0), TimeTuple(12, 30, 30), TimeTuple(23, 59, 59) }

\* A TimeTuple is held, and the sequence may go on.
TimeMore == 1 <= steps /\ steps <= MaxSteps

InitTime ==
    /\ overflow_checks \in BOOLEAN
    /\ self = TimeTuple(0, 0, 0)
    /\ op = "init"
    /\ arg = NoArg
    /\ old = self
    /\ out = Unit
    /\ steps = 0

NextTime ==
    \/ Start /\ \E t \in TimeTriples : TimeNew(t[1], t[2], t[3])
    \/ Start /\ \E n \in SecondCounts : TimeFromSeconds(n)
    \/ Start /\ \E text \in TimeTexts : TimeFromStr(text)
    \/ TimeMore /\ \E n \in SecondArgs : TimeAddSeconds(n)
    \/ TimeMore /\ \E n \in SecondArgs : TimeSubtractSeconds(n)
    \/ TimeMore /\ \E n \in MinuteArgs : TimeAddMinutes(n)
    \/ TimeMore /\ \E n \in MinuteArgs : TimeSubtractMinutes(n)
    \/ TimeMore /\ \E n \in HourArgs : TimeAddHours(n)
    \/ TimeMore /\ \E n \in HourArgs : TimeSubtractHours(n)
    \/ TimeMore /\ \E other \in OtherTimes : TimeAdd(other)
    \/ TimeMore /\ \E other \in OtherTimes : TimeAddAssign(other)
    \/ TimeMore /\ \E other \in OtherTimes : TimeSub(other)
    \/ TimeMore /\ \E other \in OtherTimes : TimeSubAssign(other)

SpecTime == InitTime /\ [][NextTime]_vars

---------------------------------------------------------------------------
(* time_tuple.rs: Duration.  The hours are a u32; totals of seconds are    *)
(* kept in limbs, [hi, lo] for hi * 65536 + lo.                            *)

Duration(h, m, s) == [h |-> h, m |-> m, s |-> s]

\* A u32 result in limbs: [panic, w].  A value outside the type panics
\* under overflow checks and loses its high bits without them.
U32(w, checks) ==
    IF 0 <= w.hi /\ w.hi < LIMB THEN [panic |-> FALSE, w |-> w]
    ELSE IF checks THEN [panic |-> TRUE, w |-> Wide(0)]
    ELSE [panic |-> FALSE, w |-> [hi |-> w.hi % LIMB, lo |-> w.lo]]

\* a + b for two totals in limbs.
WideAdd(x, y) == WideCarry(x.hi + y.hi, x.lo + y.lo)

\* Duration::from_seconds(total_seconds: u64), the total in limbs: the
\* quotient by 3600 is taken limb by limb.  The totals given are below
\* 3600 * 2^31, so the hours fit the u32 field as they are.
Duration_from_seconds(total_seconds) ==
    LET high == total_seconds.hi \div SECONDS_IN_AN_HOUR
        low == (total_seconds.hi % SECONDS_IN_AN_HOUR) * LIMB + total_seconds.lo
        h == high * LIMB + (low \div SECONDS_IN_AN_HOUR)
        after_h == low % SECONDS_IN_AN_HOUR
        m == after_h \div SECONDS_IN_A_MINUTE
        after_m == after_h - m * SECONDS_IN_A_MINUTE
    IN  Duration(h, m % U8_MODULUS, after_m % U8_MODULUS)

\* Duration::new(h: u32, m: u32, s: u32): [panic, time].  The sum
\* s + 60 * m + 3600 * h is taken in u32, left to right.
Duration_new(h, m, s, checks) ==
    LET minutes == U32(WideScale(SECONDS_IN_A_MINUTE, m), checks)
        partial == U32(WideAdd(Wide(s), minutes.w), checks)
        hours == U32(WideScale(SECONDS_IN_AN_HOUR, h), checks)
        total_seconds == U32(WideAdd(partial.w, hours.w), checks)
    IN  IF minutes.panic \/ partial.panic \/ hours.panic \/ total_seconds.panic
        THEN TimePanic
        ELSE Time(Duration_from_seconds(total_seconds.w))

\* Duration::to_seconds, a u64, in limbs.
Duration_to_seconds(s) ==
    WideCarry(SECONDS_IN_AN_HOUR * Wide(s.h).hi,
              SECONDS_IN_AN_HOUR * Wide(s.h).lo + SECONDS_IN_A_MINUTE * s.m + s.s)

\* impl Display for Duration: write!(f, "{}:{:02}:{:02}", self.h, self.m, self.s)
Duration_to_string(s) ==
    Decimal(s.h) \o <<":">> \o Padded(s.m, 2) \o <<":">> \o Padded(s.s, 2)

\* impl From<TimeTuple> for Duration
Duration_from(time) == Duration_from_seconds(Wide(TimeTuple_to_seconds(time)))

---------------------------------------------------------------------------
(* Duration: a constructor (new, from_seconds, from), then reads of the    *)
(* value it returned.  Here self is a Duration.                            *)

\* A total of seconds returned, in limbs.
Seconds(w) == [tag |-> "Seconds", date |-> w, n |-> 0, s |-> ""]

DurationNew(h, m, s) ==
    TimeReturn("Duration::new", Arg(0, Duration(h, m, s)),
               Duration_new(h, m, s, overflow_checks))

DurationFromSeconds(n) ==
    TimeReturn("Duration::from_seconds", TimeArg(n),
               Time(Duration_from_seconds(Wide(n))))

DurationFrom(time) ==
    TimeReturn("Duration::from", Arg(0, time), Time(Duration_from(time)))

DurationToSeconds ==
    /\ Running
    /\ Return("Duration::to_seconds", NoArg, Seconds(Duration_to_seconds(self)), self)

DurationToString ==
    /\ Running
    /\ Return("Duration::to_string", NoArg, Text(Duration_to_string(self)), self)

\* (h, m, s) given to Duration::new.  3600 * 1193046 + 60 * 28 + 15 is
\* u32::MAX; the hours go up to 2^31 - 1.
DurationHours ==
    {0, 1, 2, 23, 24, 30, 200, 65535, 65536, 1193045, 1193046, 1193047,
     I32_MAX}

DurationMinutesAndSeconds ==
    { <<0, 0>>, <<0, 39>>, <<1, 1>>, <<28, 15>>, <<28, 16>>, <<30, 0>>,
      <<59, 59>>, <<90, 90>> }

DurationTriples ==
    { <<h, p[1], p[2]>> : h \in DurationHours, p \in DurationMinutesAndSeconds }
        \cup { <<0, 71582788, 15>>, <<0, 71582788, 16>>, <<0, 71582789, 0>>,
               <<0, 0, I32_MAX>> }

InitDuration ==
    /\ overflow_checks \in BOOLEAN
    /\ self = Duration(0, 0, 0)
    /\ op = "init"
    /\ arg = NoArg
    /\ old = self
    /\ out = Unit
    /\ steps = 0

NextDuration ==
    \/ Start /\ \E t \in DurationTriples : DurationNew(t[1], t[2], t[3])
    \/ Start /\ \E n \in SecondCounts : DurationFromSeconds(n)
    \/ Start /\ \E time \in OtherTimes : DurationFrom(time)
    \/ TimeMore /\ DurationToSeconds
    \/ TimeMore /\ DurationToString

SpecDuration == InitDuration /\ [][NextDuration]_vars

---------------------------------------------------------------------------
(* date_time_tuple.rs: DateTimeTuple, the pair of a DateTuple and a        *)
(* TimeTuple.                                                              *)

DateTimeTuple(d, t) == [d |-> d, t |-> t]

\* DateTimeTuple::to_readable_string: [panic, s].
\* format!("{} {}", self.d.to_readable_string(), self.t.to_string())
DateTimeTuple_to_readable_string(s) ==
    LET date == to_readable_string(s.d)
    IN  [panic |-> date.panic,
         s |-> date.s \o <<" ">> \o TimeTuple_to_string(s.t)]

---------------------------------------------------------------------------
(* A DateTuple and its text: a constructor (new, from_str), then to_string *)
(* and to_readable_string of the date held, to_readable_string of the      *)
(* DateTimeTuple of it and a time, and from_str of what to_string wrote.   *)

DateToString ==
    /\ Running
    /\ Return("to_string", NoArg, Text(to_string(self)), self)

DateToReadableString ==
    LET r == to_readable_string(self)
    IN  /\ Running
        /\ Return("to_readable_string", NoArg,
                  IF r.panic THEN Panic ELSE Text(r.s), self)

DateFromStr(text) ==
    LET r == from_str(text)
    IN  /\ Running
        /\ Return("from_str", ArgText(text), r,
                  IF r.tag = "Ok" THEN r.date ELSE self)

\* DateTimeTuple::new(self, time).to_readable_string()
DateTimeToReadableString(time) ==
    LET r == DateTimeTuple_to_readable_string(DateTimeTuple(self, time))
    IN  /\ Running
        /\ Return("DateTimeTuple::to_readable_string", Arg(0, time),
                  IF r.panic THEN Panic ELSE Text(r.s), self)

\* (y, m, d) given to new: every month of five years, leap and common,
\* with the days around the ends of the months; some are no dates.
TextTriples ==
    {0, 4, 100, 2000, 9999} \X (0..12) \X {0, 1, 10, 28, 29, 30, 31, 32}

DateTexts ==
    { <<"2", "0", "0", "0", "-", "0", "5", "-", "1", "0">>,
      <<"2", "0", "0", "0", "0", "5", "1", "0">>,
      <<"2", "0", "0", "0", "-", "1", "5", "-", "1", "0">>,
      <<"2", "0", "0", "0", "-", "1", "6", "-", "1", "0">>,
      <<"2", "0", "0", "0", "1", "5", "1", "0">>,
      <<"2", "0", "0", "0", "1", "6", "1", "0">>,
      <<"2", "0", "0", "0", "-", "0", "1", "-", "2", "9">>,
      <<"2", "0", "0", "1", "-", "0", "1", "-", "2", "9">>,
      <<"2", "0", "0", "1", "0", "1", "2", "9">>,
      <<"2", "0", "0", "0", "-", "0", "5", "-", "0", "0">>,
      <<"2", "0", "0", "0", "-", "0", "5", "-", "3", "2">>,
      <<"9", "9", "9", "9", "-", "9", "9", "-", "9", "9">>,
      <<"9", "9", "9", "9", "9", "9", "9", "9">>,
      <<"0", "0", "0", "0", "-", "0", "0", "-", "0", "1">>,
      <<"2", "0", "0", "0", "-", "5", "-", "1", "0">>,
      <<"2", "0", "0", "0", "/", "0", "5", "/", "1", "0">>,
      <<"2", "-", "a", "1", "1", "1", "1", "1">>,
      <<"2", "0", "0", ARABIC_INDIC_THREE, "-", "0", "5", "-", "1", "0">>,
      <<"2", "0", "0", "0", "0", "5", "1", ARABIC_INDIC_THREE>>,
      <<>> }

ReadTimes == { TimeTuple(8, 30, 0), TimeTuple(23, 59, 59) }

InitText ==
    /\ overflow_checks \in BOOLEAN
    /\ self = DateTuple(0, 0, 1)
    /\ op = "init"
    /\ arg = NoArg
    /\ old = self
    /\ out = Ok(self)
    /\ steps = 0

NextText ==
    \/ Start /\ \E t \in TextTriples : New(t[1], t[2], t[3])
    \/ Start /\ \E text \in DateTexts : DateFromStr(text)
    \/ TimeMore /\ DateToString
    \/ TimeMore /\ DateToReadableString
    \/ TimeMore /\ \E time \in ReadTimes : DateTimeToReadableString(time)
    \/ op = "to_string" /\ DateFromStr(out.s)

SpecText == InitText /\ [][NextText]_vars

---------------------------------------------------------------------------
(* Date + Date: a DateTuple is constructed, then another is added to it.   *)

\* The left operands: both ends of the range, leap days, the middle.
AddLefts ==
    { <<0, 0, 1>>, <<0, 0, 28>>, <<0, 1, 29>>, <<4, 1, 29>>, <<1999, 11, 31>>,
      <<2000, 1, 29>>, <<8000, 1, 29>>,
      <<9999, 11, 30>>, <<9999, 11, 31>> }

AddRights ==
    { DateTuple(0, 0, 1), DateTuple(0, 0, 2), DateTuple(0, 0, 28),
      DateTuple(0, 11, 31), DateTuple(1, 0, 1), DateTuple(2000, 1, 29),
      DateTuple(8000, 1, 29),
      DateTuple(9999, 11, 31) }

NextAdd ==
    \/ Start /\ \E t \in AddLefts : New(t[1], t[2], t[3])
    \/ Constructed /\ \E o \in AddRights : AddDate(o)

SpecAdd == InitOnce /\ [][NextAdd]_vars

---------------------------------------------------------------------------
(* time_tuple.rs: Duration, its mutators, operators and text.  A u32       *)
(* argument or intermediate is in limbs where it may pass 2^31.            *)

\* c * w for a total w in limbs and a small factor c.
WideTimes(c, w) == WideCarry(c * w.hi, c * w.lo)

\* Duration::new(h, m, s) on u32 arguments in limbs: [panic, time].
Duration_new_u32(h, m, s, checks) ==
    LET minutes == U32(WideTimes(SECONDS_IN_A_MINUTE, m), checks)
        partial == U32(WideAdd(s, minutes.w), checks)
        hours == U32(WideTimes(SECONDS_IN_AN_HOUR, h), checks)
        total_seconds == U32(WideAdd(partial.w, hours.w), checks)
    IN  IF minutes.panic \/ partial.panic \/ hours.panic \/ total_seconds.panic
        THEN TimePanic
        ELSE Time(Duration_from_seconds(total_seconds.w))

\* The six mutators: the changed field is computed in u32, then the whole
\* Duration goes through Duration::new.
Duration_mutate(field, h, m, s, checks) ==
    IF field.panic THEN TimePanic ELSE Duration_new_u32(h, m, s, checks)

Duration_add_seconds(s, seconds, checks) ==
    LET new_seconds == U32(WideSum(s.s, seconds), checks)
    IN  Duration_mutate(new_seconds, Wide(s.h), Wide(s.m), new_seconds.w, checks)

Duration_subtract_seconds(s, seconds, checks) ==
    LET new_seconds == U32(WideDiff(s.s, seconds), checks)
    IN  Duration_mutate(new_seconds, Wide(s.h), Wide(s.m), new_seconds.w, checks)

Duration_add_minutes(s, minutes, checks) ==
    LET new_minutes == U32(WideSum(s.m, minutes), checks)
    IN  Duration_mutate(new_minutes, Wide(s.h), new_minutes.w, Wide(s.s), checks)

Duration_subtract_minutes(s, minutes, checks) ==
    LET new_minutes == U32(WideDiff(s.m, minutes), checks)
    IN  Duration_mutate(new_minutes, Wide(s.h), new_minutes.w, Wide(s.s), checks)

Duration_add_hours(s, hours, checks) ==
    LET new_hours == U32(WideSum(s.h, hours), checks)
    IN  Duration_mutate(new_hours, new_hours.w, Wide(s.m), Wide(s.s), checks)

Duration_subtract_hours(s, hours, checks) ==
    LET new_hours == U32(WideDiff(s.h, hours), checks)
    IN  Duration_mutate(new_hours, new_hours.w, Wide(s.m), Wide(s.s), checks)

\* impl Add / AddAssign / Sub / SubAssign for Duration: the hours are
\* added or subtracted in u32, the minutes and seconds in u8, then all
\* three are handed to Duration::new.
Duration_fieldwise(h, m, s, checks) ==
    IF h.panic \/ m.panic \/ s.panic THEN TimePanic
    ELSE Duration_new_u32(h.w, Wide(m.v), Wide(s.v), checks)

Duration_add(s, other, checks) ==
    Duration_fieldwise(U32(WideSum(s.h, other.h), checks),
                       U8(s.m + other.m, checks), U8(s.s + other.s, checks), checks)

Duration_add_assign(s, other, checks) ==
    Duration_fieldwise(U32(WideSum(s.h, other.h), checks),
                       U8(s.m + other.m, checks), U8(s.s + other.s, checks), checks)

Duration_sub(s, other, checks) ==
    Duration_fieldwise(U32(WideDiff(s.h, other.h), checks),
                       U8(s.m - other.m, checks), U8(s.s - other.s, checks), checks)

Duration_sub_assign(s, other, checks) ==
    Duration_fieldwise(U32(WideDiff(s.h, other.h), checks),
                       U8(s.m - other.m, checks), U8(s.s - other.s, checks), checks)

\* Duration::to_minutes: [panic, w], 60 * self.h + self.m in u32.
Duration_to_minutes(s, checks) ==
    LET hours == U32(WideScale(SECONDS_IN_A_MINUTE, s.h), checks)
        total == U32(WideAdd(hours.w, Wide(s.m)), checks)
    IN  [panic |-> hours.panic \/ total.panic, w |-> total.w]

\* text without its leading zeros.
RECURSIVE Significant(_)
Significant(text) ==
    IF text # <<>> /\ Head(text) = "0" THEN Significant(Tail(text)) ELSE text

\* The number a run of ASCII digits denotes, in limbs.
RECURSIVE WideDigits(_)
WideDigits(text) ==
    IF text = <<>> THEN Wide(0)
    ELSE WideAdd(WideTimes(10, WideDigits(SubSeq(text, 1, Len(text) - 1))),
                 Wide(DigitValue(text[Len(text)])))

\* u32::from_str on text: [ok, w].  It fails on an empty text, on a
\* character that is no ASCII digit and on a number above u32::MAX; a number
\* of more than 10 significant digits is above it.
U32FromStr(text) ==
    IF /\ text # <<>>
       /\ \A i \in 1..Len(text) : IsDigit(text[i])
       /\ Len(Significant(text)) <= 10
       /\ WideDigits(Significant(text)).hi < LIMB
    THEN [ok |-> TRUE, w |-> WideDigits(Significant(text))]
    ELSE [ok |-> FALSE, w |-> Wide(0)]

\* impl FromStr for Duration: [ok, panic, time].  The regular expression is
\* ^\d+:\d{2}:\d{2}$; the fields between the colons are read with
\* u32::from_str(..).unwrap() and handed to Duration::new.
Duration_from_str(text, checks) ==
    LET n == Len(text)
        valid_format ==
            /\ n >= 7
            /\ DigitsAt(text, 1, n - 6)
            /\ text[n - 5] = ":"
            /\ DigitsAt(text, n - 4, 2)
            /\ text[n - 2] = ":"
            /\ DigitsAt(text, n - 1, 2)
        fields == <<U32FromStr(SubSeq(text, 1, n - 6)),
                    U32FromStr(SubSeq(text, n - 4, n - 3)),
                    U32FromStr(SubSeq(text, n - 1, n))>>
        r == Duration_new_u32(fields[1].w, fields[2].w, fields[3].w, checks)
    IN  IF ~valid_format
        THEN [ok |-> FALSE, panic |-> FALSE, time |-> Duration(0, 0, 0)]
        ELSE IF ~(fields[1].ok /\ fields[2].ok /\ fields[3].ok)
        THEN [ok |-> TRUE, panic |-> TRUE, time |-> Duration(0, 0, 0)]
        ELSE [ok |-> TRUE, panic |-> r.panic, time |-> r.time]

---------------------------------------------------------------------------
(* Duration arithmetic: a Duration is constructed, then mutators and       *)
(* operators are called on it.  Here self is a Duration.                   *)

DurationMutate(name, a, r) == TimeMutate(name, a, r)

DurationAddSeconds(n) ==
    DurationMutate("Duration::add_seconds", TimeArg(n),
                   Duration_add_seconds(self, n, overflow_checks))

DurationSubtractSeconds(n) ==
    DurationMutate("Duration::subtract_seconds", TimeArg(n),
                   Duration_subtract_seconds(self, n, overflow_checks))

DurationAddMinutes(n) ==
    DurationMutate("Duration::add_minutes", TimeArg(n),
                   Duration_add_minutes(self, n, overflow_checks))

DurationSubtractMinutes(n) ==
    DurationMutate("Duration::subtract_minutes", TimeArg(n),
                   Duration_subtract_minutes(self, n, overflow_checks))

DurationAddHours(n) ==
    DurationMutate("Duration::add_hours", TimeArg(n),
                   Duration_add_hours(self, n, overflow_checks))

DurationSubtractHours(n) ==
    DurationMutate("Duration::subtract_hours", TimeArg(n),
                   Duration_subtract_hours(self, n, overflow_checks))

DurationAdd(other) ==
    TimeReturn("Duration::add", Arg(0, other),
               Duration_add(self, other, overflow_checks))

DurationAddAssign(other) ==
    DurationMutate("Duration::add_assign", Arg(0, other),
                   Duration_add_assign(self, other, overflow_checks))

DurationSub(other) ==
    TimeReturn("Duration::sub", Arg(0, other),
               Duration_sub(self, other, overflow_checks))

DurationSubAssign(other) ==
    DurationMutate("Duration::sub_assign", Arg(0, other),
                   Duration_sub_assign(self, other, overflow_checks))

DurationOperands ==
    { <<0, 0, 0>>, <<0, 30, 0>>, <<1, 0, 0>>, <<1, 30, 0>>, <<2, 0, 0>>,
      <<10, 59, 2>>, <<200, 0, 0>> }

DurationArgs == {0, 1, 2, 30, 60}

OtherDurations == { Duration(t[1], t[2], t[3]) : t \in DurationOperands }

NextDurationOps ==
    \/ Start /\ \E t \in DurationOperands : DurationNew(t[1], t[2], t[3])
    \/ TimeMore /\ \E n \in DurationArgs : DurationAddSeconds(n)
    \/ TimeMore /\ \E n \in DurationArgs : DurationSubtractSeconds(n)
    \/ TimeMore /\ \E n \in DurationArgs : DurationAddMinutes(n)
    \/ TimeMore /\ \E n \in DurationArgs : DurationSubtractMinutes(n)
    \/ TimeMore /\ \E n \in DurationArgs : DurationAddHours(n)
    \/ TimeMore /\ \E n \in DurationArgs : DurationSubtractHours(n)
    \/ TimeMore /\ \E other \in OtherDurations : DurationAdd(other)
    \/ TimeMore /\ \E other \in OtherDurations : DurationAddAssign(other)
    \/ TimeMore /\ \E other \in OtherDurations : DurationSub(other)
    \/ TimeMore /\ \E other \in OtherDurations : DurationSubAssign(other)

SpecDurationOps == InitDuration /\ [][NextDurationOps]_vars

---------------------------------------------------------------------------
(* Duration text and minutes: a Duration is constructed from its fields,   *)
(* from a count of seconds (u64) or from text, and is then formatted, read *)
(* back and converted.                                                     *)

Minutes(w) == [tag |-> "Minutes", date |-> w, n |-> 0, s |-> ""]

\* Duration::from_seconds(total_seconds), the count given in limbs.
DurationFromSecondsU64(total_seconds) ==
    TimeReturn("Duration::from_seconds", Arg(0, total_seconds),
               Time(Duration_from_seconds(total_seconds)))

DurationToMinutes ==
    LET r == Duration_to_minutes(self, overflow_checks)
    IN  /\ Running
        /\ Return("Duration::to_minutes", NoArg,
                  IF r.panic THEN Panic ELSE Minutes(r.w), self)

DurationFromStr(text) ==
    LET r == Duration_from_str(text, overflow_checks)
    IN  /\ Running
        /\ Return("Duration::from_str", ArgText(text),
                  IF ~r.ok THEN Err(Duration(0, 0, 0))
                  ELSE IF r.panic THEN Panic ELSE Ok(r.time),
                  IF r.ok /\ ~r.panic THEN r.time ELSE self)

\* Hours below and above 1193046 (u32::MAX seconds) and 71582788
\* (u32::MAX minutes); 87658199:59:59 is the time from 0000-01-01 00:00:00
\* to 9999-12-31 23:59:59.
LongDurations ==
    { Duration(0, 0, 0), Duration(8, 30, 5), Duration(200, 0, 0),
      Duration(1193046, 28, 15), Duration(1193047, 0, 0),
      Duration(2000000, 0, 0), Duration(71582788, 15, 0),
      Duration(71582788, 16, 0), Duration(71582789, 0, 0),
      Duration(87658199, 59, 59), Duration(87658200, 0, 0) }

SecondsOf(d) ==
    WideAdd(WideTimes(SECONDS_IN_AN_HOUR, Wide(d.h)),
            Wide(SECONDS_IN_A_MINUTE * d.m + d.s))

DurationTexts ==
    { <<"8", ":", "3", "0", ":", "0", "5">>,
      <<"3", "5", ":", "3", "0", ":", "0", "4">>,
      <<"0", "0", "7", ":", "0", "0", ":", "0", "0">>,
      <<"1", ":", "9", "9", ":", "9", "9">>,
      <<"1", "1", "9", "3", "0", "4", "6", ":", "2", "8", ":", "1", "5">>,
      <<"1", "1", "9", "3", "0", "4", "7", ":", "0", "0", ":", "0", "0">>,
      <<"4", "2", "9", "4", "9", "6", "7", "2", "9", "5", ":", "0", "0", ":", "0", "0">>,
      <<"4", "2", "9", "4", "9", "6", "7", "2", "9", "6", ":", "0", "0", ":", "0", "0">>,
      <<"9", "9", "9", "9", "9", "9", "9", "9", "9", "9", "9", "9", ":", "0", "0", ":", "0", "0">>,
      <<ARABIC_INDIC_THREE, ":", "0", "0", ":", "0", "0">>,
      <<"8", ":", "3", "0">>,
      <<"8", ":", "3", ":", "5">>,
      <<":", "0", "0", ":", "0", "0">>,
      <<"-", "1", ":", "0", "0", ":", "0", "0">>,
      <<>> }

NextDurationText ==
    \/ Start /\ \E t \in DurationOperands : DurationNew(t[1], t[2], t[3])
    \/ Start /\ \E d \in LongDurations : DurationFromSecondsU64(SecondsOf(d))
    \/ Start /\ \E text \in DurationTexts : DurationFromStr(text)
    \/ TimeMore /\ DurationToString
    \/ TimeMore /\ DurationToMinutes
    \/ TimeMore /\ DurationToSeconds
    \/ op = "Duration::to_string" /\ steps <= MaxSteps + 1 /\ DurationFromStr(out.s)

SpecDurationText == InitDuration /\ [][NextDurationText]_vars

---------------------------------------------------------------------------
(* date_time_tuple.rs: DateTimeTuple, its order and its text.              *)

\* impl PartialOrd / Ord for TimeTuple: by to_seconds().
TimeTuple_partial_cmp(s, other) ==
    Ordering(TimeTuple_to_seconds(s), TimeTuple_to_seconds(other))

TimeTuple_cmp(s, other) ==
    Ordering(TimeTuple_to_seconds(s), TimeTuple_to_seconds(other))

\* #[derive(PartialEq)] on DateTimeTuple: field by field.
DateTimeTuple_eq(s, other) == eq(s.d, other.d) /\ TimeTuple_eq(s.t, other.t)

\* An order that looks at the time of day before the date.
DateTimeTuple_partial_cmp_time_first(s, other) ==
    IF TimeTuple_eq(s.t, other.t)
    THEN partial_cmp(s.d, other.d)
    ELSE TimeTuple_partial_cmp(s.t, other.t)

\* impl PartialOrd for DateTimeTuple.
DateTimeTuple_partial_cmp(s, other) ==
    IF eq(s.d, other.d)
    THEN TimeTuple_partial_cmp(s.t, other.t)
    ELSE partial_cmp(s.d, other.d)

\* impl Ord for DateTimeTuple.
DateTimeTuple_cmp(s, other) ==
    IF eq(s.d, other.d)
    THEN TimeTuple_cmp(s.t, other.t)
    ELSE cmp(s.d, other.d)

\* impl Display for DateTimeTuple: "{}@{}".
DateTimeTuple_to_string(s) ==
    to_string(s.d) \o <<"@">> \o TimeTuple_to_string(s.t)

\* s.split('@'): the parts of the text between its '@' characters.
RECURSIVE SplitAt(_, _)
SplitAt(text, part) ==
    IF text = <<>> THEN <<part>>
    ELSE IF Head(text) = "@" THEN <<part>> \o SplitAt(Tail(text), <<>>)
    ELSE SplitAt(Tail(text), Append(part, Head(text)))

\* impl FromStr for DateTimeTuple: Ok(date-time), Err or Panic.  The two
\* regular expressions are ^\d{4}-\d{2}-\d{2}@\d{2}:\d{2}:\d{2}$ and
\* ^\d{8}@\d{2}:\d{2}:\d{2}$; the date part goes to DateTuple::from_str,
\* whose Err is returned, and the time part to
\* TimeTuple::from_str(..).unwrap().
DateTimeTuple_from_str(text, checks) ==
    LET n == Len(text)
        time_format(i) ==
            /\ text[i] = "@"
            /\ DigitsAt(text, i + 1, 2)
            /\ text[i + 3] = ":"
            /\ DigitsAt(text, i + 4, 2)
            /\ text[i + 6] = ":"
            /\ DigitsAt(text, i + 7, 2)
        valid_format ==
            /\ n = 19
            /\ DigitsAt(text, 1, 4)
            /\ text[5] = "-"
            /\ DigitsAt(text, 6, 2)
            /\ text[8] = "-"
            /\ DigitsAt(text, 9, 2)
            /\ time_format(11)
        legacy_format == n = 17 /\ DigitsAt(text, 1, 8) /\ time_format(9)
        parts == SplitAt(text, <<>>)
        date_part == from_str(parts[1])
        time_part == TimeTuple_from_str(parts[2], checks)
        none == DateTimeTuple(DateTuple(0, 0, 0), TimeTuple(0, 0, 0))
    IN  IF ~(valid_format \/ legacy_format) THEN Err(none)
        ELSE IF date_part.tag = "Panic" THEN Panic
        ELSE IF date_part.tag = "Err" THEN Err(none)
        ELSE IF ~time_part.ok \/ time_part.panic THEN Panic
        ELSE Ok(DateTimeTuple(date_part.date, time_part.time))

---------------------------------------------------------------------------
(* SpecDateTime: a DateTimeTuple is built or parsed, then compared with    *)
(* others, written as text and read back.  Here self is a DateTimeTuple.   *)

DateTimeNew(d, t) ==
    /\ Running
    /\ Return("DateTimeTuple::new", Arg(0, DateTimeTuple(d, t)),
              Value(DateTimeTuple(d, t)), DateTimeTuple(d, t))

DateTimePartialCmp(other) ==
    /\ Running
    /\ Return("DateTimeTuple::partial_cmp", Arg(0, other),
              Ord(DateTimeTuple_partial_cmp(self, other)), self)

DateTimeCmp(other) ==
    /\ Running
    /\ Return("DateTimeTuple::cmp", Arg(0, other),
              Ord(DateTimeTuple_cmp(self, other)), self)

DateTimeEq(other) ==
    /\ Running
    /\ Return("DateTimeTuple::eq", Arg(0, other),
              Bool(DateTimeTuple_eq(self, other)), self)

DateTimeToString ==
    /\ Running
    /\ Return("DateTimeTuple::to_string", NoArg,
              Text(DateTimeTuple_to_string(self)), self)

DateTimeFromStr(text) ==
    LET r == DateTimeTuple_from_str(text, overflow_checks)
    IN  /\ Running
        /\ Return("DateTimeTuple::from_str", ArgText(text), r,
                  IF r.tag = "Ok" THEN r.date ELSE self)

\* TimeTuple::from_str called on its own; the DateTimeTuple stays as held.
ClockFromStr(text) ==
    LET r == TimeTuple_from_str(text, overflow_checks)
    IN  /\ Running
        /\ Return("TimeTuple::from_str", ArgText(text),
                  IF ~r.ok THEN Err(TimeTuple(0, 0, 0))
                  ELSE IF r.panic THEN Panic ELSE Ok(r.time),
                  self)

\* Dates by the month index of the source: 2000-04-10 is 10 May 2000.
DateTimeDates ==
    { DateTuple(0, 0, 1), DateTuple(2000, 1, 29), DateTuple(2000, 4, 10),
      DateTuple(2000, 4, 11), DateTuple(2001, 0, 1), DateTuple(9999, 11, 31) }

DateTimeTimes ==
    { TimeTuple(0, 0, 0), TimeTuple(8, 30, 0), TimeTuple(9, 30, 0),
      TimeTuple(23, 59, 59) }

DateTimes == { DateTimeTuple(d, t) : d \in DateTimeDates, t \in DateTimeTimes }

DateTimeTexts ==
    { <<"2", "0", "0", "0", "-", "0", "5", "-", "1", "0", "@", "0", "8",
        ":", "3", "0", ":", "0", "0">>,
      <<"2", "0", "0", "0", "0", "5", "1", "0", "@", "0", "8", ":", "3",
        "0", ":", "0", "0">>,
      <<"2", "0", "0", "0", "-", "1", "5", "-", "1", "0", "@", "0", "8",
        ":", "3", "0", ":", "0", "0">>,
      <<"2", "0", "0", "0", "1", "5", "1", "0", "@", "0", "8", ":", "3",
        "0", ":", "0", "0">>,
      <<"2", "-", "a", "1", "1", "1", "1", "1", "@", "0", "5", ":", "a",
        ":", "0", "4">>,
      <<"2", "0", "0", "0", "-", "0", "5", "-", "1", "0", "@", "2", "4",
        ":", "0", "0", ":", "0", "0">>,
      <<"2", "0", "0", "0", "-", "0", "5", "-", "1", "0", "@", "9", "9",
        ":", "9", "9", ":", "9", "9">>,
      <<"9", "9", "9", "9", "-", "1", "1", "-", "3", "1", "@", "2", "5",
        ":", "0", "0", ":", "0", "0">>,
      <<"0", "0", "0", "0", "-", "0", "0", "-", "0", "1", "@", "0", "0",
        ":", "0", "0", ":", "0", "0">>,
      <<"2", "0", "0", "1", "-", "0", "1", "-", "2", "9", "@", "0", "8",
        ":", "3", "0", ":", "0", "0">>,
      <<"2", "0", "0", "0", "-", "0", "5", "-", "1", "0", " ", "0", "8",
        ":", "3", "0", ":", "0", "0">>,
      <<"2", "0", "0", "0", "-", "0", "5", "-", "1", "0", "@", "8", ":",
        "3", "0", ":", "0", "0">>,
      <<"2", "0", "0", "0", "-", "0", "5", "-", "1", "0">>,
      <<"0", "8", ":", "3", "0", ":", "0", "0">>,
      <<>>,
      <<"2", "0", "0", "0", "-", "0", "5", "-", "1", "0", "@", "0", "8",
        ":", "3", "0", ":", "0", "0", "@">>,
      <<"2", "0", "0", "0", "-", "0", ARABIC_INDIC_THREE, "-", "1", "0",
        "@", "0", "8", ":", "3", "0", ":", "0", "0">>,
      <<"2", "0", "0", "0", "-", "0", "5", "-", "1", "0", "@", "0",
        ARABIC_INDIC_THREE, ":", "3", "0", ":", "0", "0">> }

ClockTexts ==
    { <<"0", "8", ":", "3", "0", ":", "0", "0">>,
      <<"2", "3", ":", "5", "9", ":", "5", "9">>,
      <<"2", "4", ":", "0", "0", ":", "0", "0">>,
      <<"2", "5", ":", "9", "0", ":", "9", "0">>,
      <<"9", "9", ":", "9", "9", ":", "9", "9">>,
      <<"8", ":", "3", "0", ":", "0", "0">>,
      <<"0", "8", "-", "3", "0", "-", "0", "0">>,
      <<"0", "8", ":", "3", "0">>,
      <<"0", ARABIC_INDIC_THREE, ":", "3", "0", ":", "0", "0">>,
      <<>> }

DateTimeMore == 1 <= steps /\ steps <= MaxSteps

InitDateTime ==
    /\ overflow_checks \in BOOLEAN
    /\ self = DateTimeTuple(DateTuple(0, 0, 1), TimeTuple(0, 0, 0))
    /\ op = "init"
    /\ arg = NoArg
    /\ old = self
    /\ out = Unit
    /\ steps = 0

NextDateTime ==
    \/ Start /\ \E x \in DateTimes : DateTimeNew(x.d, x.t)
    \/ Start /\ \E text \in DateTimeTexts : DateTimeFromStr(text)
    \/ Start /\ \E text \in ClockTexts : ClockFromStr(text)
    \/ DateTimeMore /\ \E other \in DateTimes : DateTimePartialCmp(other)
    \/ DateTimeMore /\ \E other \in DateTimes : DateTimeCmp(other)
    \/ DateTimeMore /\ \E other \in DateTimes : DateTimeEq(other)
    \/ DateTimeMore /\ DateTimeToString
    \/ op = "DateTimeTuple::to_string" /\ DateTimeFromStr(out.s)

SpecDateTime == InitDateTime /\ [][NextDateTime]_vars

---------------------------------------------------------------------------
(* Duration::between.  The tests call it and the sources at hand do not    *)
(* define it; it is taken from its description: equal DateTimes give zero; *)
(* otherwise, with (smaller, greater) by the DateTime order and            *)
(* days_between = greater.date.to_days() - smaller.date.to_days(), the     *)
(* result is greater.time - smaller.time when days_between is zero and     *)
(* (greater.time + 24h) - smaller.time + 24h * (days_between - 1)          *)
(* otherwise.  Times are taken by their seconds; totals are in limbs.      *)

\* d days in seconds, in limbs: 24 times 3600 seconds a day.
WideDays(d) ==
    WideTimes(SECONDS_IN_AN_HOUR,
              WideTimes(SECONDS_IN_A_DAY \div SECONDS_IN_AN_HOUR, Wide(d)))

\* between with every day between the two dates counted whole.
Duration_between_whole_days(dt1, dt2) ==
    IF dt1 = dt2 THEN Duration(0, 0, 0)
    ELSE LET less == DateTimeTuple_cmp(dt1, dt2) = "Less"
             smaller == IF less THEN dt1 ELSE dt2
             greater == IF less THEN dt2 ELSE dt1
             days_between == to_days(greater.d) - to_days(smaller.d)
             time == TimeTuple_to_seconds(greater.t) - TimeTuple_to_seconds(smaller.t)
         IN  IF days_between = 0 THEN Duration_from_seconds(Wide(time))
             ELSE Duration_from_seconds(
                      WideAdd(Wide(time + SECONDS_IN_A_DAY), WideDays(days_between)))

Duration_between(dt1, dt2) ==
    IF dt1 = dt2 THEN Duration(0, 0, 0)
    ELSE LET less == DateTimeTuple_cmp(dt1, dt2) = "Less"
             smaller == IF less THEN dt1 ELSE dt2
             greater == IF less THEN dt2 ELSE dt1
             days_between == to_days(greater.d) - to_days(smaller.d)
             time == TimeTuple_to_seconds(greater.t) - TimeTuple_to_seconds(smaller.t)
         IN  IF days_between = 0 THEN Duration_from_seconds(Wide(time))
             ELSE Duration_from_seconds(
                      WideAdd(Wide(time + SECONDS_IN_A_DAY),
                              WideDays(days_between - 1)))

\* Duration::between(self, other); the DateTimeTuple stays as held.
DurationBetween(other) ==
    /\ Running
    /\ Return("Duration::between", Arg(0, other),
              Value(Duration_between(self, other)), self)

\* to_seconds() of the Duration that between returned.
BetweenToSeconds ==
    /\ Running
    /\ Return("Duration::to_seconds", arg,
              Seconds(Duration_to_seconds(out.date)), self)

BetweenDates ==
    { DateTuple(0, 0, 1), DateTuple(2000, 1, 28), DateTuple(2000, 1, 29),
      DateTuple(2000, 2, 1), DateTuple(2000, 4, 10), DateTuple(2000, 4, 11),
      DateTuple(9999, 11, 31) }

BetweenTimes ==
    { TimeTuple(0, 0, 0), TimeTuple(1, 0, 0), TimeTuple(8, 30, 0),
      TimeTuple(23, 59, 59) }

BetweenDateTimes ==
    { DateTimeTuple(d, t) : d \in BetweenDates, t \in BetweenTimes }

NextBetween ==
    \/ Start /\ \E x \in BetweenDateTimes : DateTimeNew(x.d, x.t)
    \/ steps = 1 /\ \E other \in BetweenDateTimes : DurationBetween(other)
    \/ op = "Duration::between" /\ BetweenToSeconds

SpecBetween == InitDateTime /\ [][NextBetween]_vars

---------------------------------------------------------------------------
(* date_utils.rs: the system clock.  A reading of the clock is             *)
(* SystemTime::now().duration_since(UNIX_EPOCH): Ok with the whole seconds *)
(* since 1970-01-01T00:00:00, or Err when the clock is before the epoch.   *)

UNIX_EPOCH_START_YEAR == 1970
SECONDS_IN_A_YEAR == 31557600
SECONDS_IN_A_MONTH == 2629800

ClockOk(secs) == [ok |-> TRUE, secs |-> secs]
ClockErr == [ok |-> FALSE, secs |-> 0]

\* duration_since_unix_epoch().as_secs():
\* .unwrap_or_else(|_| Duration::new(0, 0))
duration_since_unix_epoch(clock) == IF clock.ok THEN clock.secs ELSE 0

\* extract_year_and_month_from_duration: [panic, y, m, seconds].
extract_year_and_month_from_duration(seconds, checks) ==
    LET years == seconds \div SECONDS_IN_A_YEAR
        after_years == seconds - years * SECONDS_IN_A_YEAR
        months == after_years \div SECONDS_IN_A_MONTH
        after_months == after_years - months * SECONDS_IN_A_MONTH
        year == U16Add(years % U16_MODULUS, UNIX_EPOCH_START_YEAR, checks)
    IN  [panic |-> year.panic, y |-> year.v, m |-> months % U8_MODULUS,
         seconds |-> after_months]

\* now_as_datetuple: [panic, date].  DateTuple::new(..).unwrap() panics on
\* an Err.
now_as_datetuple(clock, checks) ==
    LET parts == extract_year_and_month_from_duration(
                     duration_since_unix_epoch(clock), checks)
        days == parts.seconds \div SECONDS_IN_A_DAY + 1
        date == DateTuple_new(parts.y, parts.m, days % U8_MODULUS)
    IN  IF parts.panic \/ date.tag # "Ok"
        THEN [panic |-> TRUE, date |-> DateTuple(0, 0, 0)]
        ELSE [panic |-> FALSE, date |-> date.date]

\* now_as_monthtuple: [panic, date].
now_as_monthtuple(clock, checks) ==
    LET parts == extract_year_and_month_from_duration(
                     duration_since_unix_epoch(clock), checks)
        month == MonthTuple_new(parts.y, parts.m)
    IN  IF parts.panic \/ month.tag # "Ok"
        THEN [panic |-> TRUE, date |-> MonthTuple(0, 0)]
        ELSE [panic |-> FALSE, date |-> month.date]

\* now_as_timetuple with from_seconds taken without its loop.
now_as_timetuple_no_wrap(clock) ==
    TimeTuple_from_seconds_no_wrap(duration_since_unix_epoch(clock))

now_as_timetuple(clock) ==
    TimeTuple_from_seconds(duration_since_unix_epoch(clock))

---------------------------------------------------------------------------
(* SpecClock: one call of DateTuple::today(), MonthTuple::this_month() or  *)
(* TimeTuple::now() on one reading of the clock.                           *)

ClockArg(clock) ==
    [n |-> clock.secs, date |-> DateTuple(0, 0, 0),
     s |-> IF clock.ok THEN "Ok" ELSE "Err"]

ClockReturn(name, clock, r) ==
    /\ Running
    /\ Return(name, ClockArg(clock), IF r.panic THEN Panic ELSE Value(r.date),
              IF r.panic THEN self ELSE r.date)

Today(clock) ==
    ClockReturn("DateTuple::today", clock, now_as_datetuple(clock, overflow_checks))

ThisMonth(clock) ==
    ClockReturn("MonthTuple::this_month", clock,
                now_as_monthtuple(clock, overflow_checks))

Now(clock) ==
    ClockReturn("TimeTuple::now", clock,
                [panic |-> FALSE, date |-> now_as_timetuple(clock)])

\* Midnights of the first weeks after the epoch, and readings at the ends
\* of days, of the 30.4375-day months and of the 365.25-day years that
\* extract_year_and_month_from_duration counts in.
ClockSeconds ==
    { k * SECONDS_IN_A_DAY : k \in 0..40 }
    \cup { 1, 86399, 86401, SECONDS_IN_A_MONTH - 1, SECONDS_IN_A_MONTH,
           2678400, 5097600, 5135400, 31535999, 31536000,
           SECONDS_IN_A_YEAR - 1, SECONDS_IN_A_YEAR, 951782400, 951868799,
           1700000000, I32_MAX }

Clocks == { ClockOk(secs) : secs \in ClockSeconds } \cup { ClockErr }

InitClock ==
    /\ overflow_checks \in BOOLEAN
    /\ self = DateTuple(0, 0, 1)
    /\ op = "init"
    /\ arg = NoArg
    /\ old = self
    /\ out = Unit
    /\ steps = 0

NextClock ==
    \/ Start /\ \E clock \in Clocks : Today(clock)
    \/ Start /\ \E clock \in Clocks : ThisMonth(clock)
    \/ Start /\ \E clock \in Clocks : Now(clock)

SpecClock == InitClock /\ [][NextClock]_vars

---------------------------------------------------------------------------
(* Properties.  A date is written in calendar terms below: 29 February     *)
(* 2000 is DateTuple(2000, 1, 29), the month index being zero-based.       *)

Min(a, b) == IF a <= b THEN a ELSE b
Max(a, b) == IF a >= b THEN a ELSE b

\* A date of the calendar: year at most 9999, one of the twelve months, a
\* day of that month in that year.
Valid(date) ==
    /\ date.y \in 0..9999
    /\ date.m \in 0..11
    /\ 1 <= date.d
    /\ date.d <= get_last_date_in_month(date.m, date.y)

\* The day count of 31 December 9999, the last day.
LastDay == to_days(max_value)

\* C1: after any sequence of new, from_days, next_date, previous_date,
\* add_days, subtract_days, add_months, subtract_months, add_years,
\* subtract_years and +, the DateTuple held is a date of the calendar, and so
\* is every DateTuple a call returned as Ok or by value.
C1_HeldDateIsValid ==
    /\ Valid(self)
    /\ out.tag \in {"Ok", "Value"} => Valid(out.date)

\* A run of two calls that ends with add_months taking a 31st to a shorter
\* month.
C1_Witness ==
    /\ steps >= 2
    /\ op = "add_months"
    /\ old.d = 31
    /\ self.d < 31
    /\ Valid(self)

\* C2, as stated: new(y, m, d) is Ok exactly when y <= 9999, m is in 1..=12
\* and d is a day of month m counted from 1; it never panics.  The source
\* numbers months from 0, so new(9999, 12, 31) is an Err and new(0, 0, 1) is
\* Ok, and this formula is violated.
C2_NewTakesMonths1To12 ==
    op = "new" =>
        /\ out.tag \in {"Ok", "Err"}
        /\ out.tag = "Ok" <=>
              /\ arg.date.y <= 9999
              /\ arg.date.m \in 1..12
              /\ 1 <= arg.date.d
              /\ arg.date.d <= get_last_date_in_month(arg.date.m - 1, arg.date.y)

\* C3: to_days and from_days are inverse on the valid range.  from_days of
\* the count to_days gave for a valid date is Ok of that date, and for a
\* count n with 1 <= n <= to_days(31 December 9999), from_days(n) is Ok of a
\* date whose to_days is n.  (The third call of a run is from_days on the
\* count the second, to_days, returned.)
C3_DayCountRoundTrip ==
    /\ (op = "from_days" /\ steps = 3) =>
          /\ arg.n = to_days(old)
          /\ out = Ok(old)
    /\ (op = "from_days" /\ 1 <= arg.n /\ arg.n <= LastDay) =>
          /\ out.tag = "Ok"
          /\ Valid(out.date)
          /\ to_days(out.date) = arg.n

\* 29 February 2000 went through to_days and from_days and came back.
C3_Witness ==
    /\ op = "from_days"
    /\ steps = 3
    /\ old = DateTuple(2000, 1, 29)
    /\ arg.n = 730545
    /\ out = Ok(DateTuple(2000, 1, 29))

C5_NextAndPreviousMoveOneDay ==
    /\ op = "next_date" =>
          /\ out = Value(self)
          /\ Valid(self)
          /\ IF old = DateTuple(9999, 11, 31)
             THEN self = old
             ELSE to_days(self) = to_days(old) + 1
    /\ op = "previous_date" =>
          /\ out = Value(self)
          /\ Valid(self)
          /\ IF old = DateTuple(0, 0, 1)
             THEN self = old
             ELSE to_days(self) = to_days(old) - 1

\* previous_date stepped back from the first of March of a leap year.
C5_Witness ==
    /\ op = "previous_date"
    /\ old = DateTuple(4, 2, 1)
    /\ self = DateTuple(4, 1, 29)

\* n successive applications of next_date, and of previous_date.
RECURSIVE NextDateTimes(_, _)
NextDateTimes(date, n) ==
    IF n = 0 THEN date ELSE NextDateTimes(next_date(date), n - 1)

RECURSIVE PreviousDateTimes(_, _)
PreviousDateTimes(date, n) ==
    IF n = 0 THEN date ELSE PreviousDateTimes(previous_date(date), n - 1)

\* C6: add_days(n) leaves a valid date equal to n applications of
\* next_date, the date whose day count is min(to_days + n, to_days(31
\* December 9999)); subtract_days(n) leaves it equal to n applications of
\* previous_date, the date whose day count is max(to_days - n, 1).
C6_AddDaysIsRepeatedNextDate ==
    /\ op = "add_days" =>
          /\ self = NextDateTimes(old, arg.n)
          /\ Valid(self)
          /\ to_days(self) = Min(to_days(old) + arg.n, LastDay)
    /\ op = "subtract_days" =>
          /\ self = PreviousDateTimes(old, arg.n)
          /\ Valid(self)
          /\ to_days(self) = Max(to_days(old) - arg.n, 1)

\* add_days(3) went from 30 December into the next year.
C6_Witness ==
    /\ op = "add_days"
    /\ arg.n = 3
    /\ old = DateTuple(100, 11, 30)
    /\ self = DateTuple(101, 0, 2)

\* The months from January 0000 to the month of a date, and the last one.
MonthIndex(date) == 12 * date.y + date.m
LastMonthIndex == 12 * 9999 + 11

C8_YearsSaturate ==
    /\ op = "add_years" =>
          LET year == Min(old.y + arg.n, 9999)
              month == MonthTuple_add_years(MonthTuple_from(old), arg.n, overflow_checks)
          IN  /\ out.tag = "Unit"
              /\ self.y = year
              /\ self.m = old.m
              /\ self.d = IF old.m = 1 /\ old.d = 29 /\ ~is_leap_year(year)
                          THEN 28 ELSE old.d
              /\ ~month.panic
              /\ month.month = MonthTuple(year, old.m)
    /\ op = "subtract_years" =>
          LET year == Max(old.y - arg.n, 0)
          IN  /\ out.tag = "Unit"
              /\ self.y = year
              /\ self.m = old.m
              /\ self.d = IF old.m = 1 /\ old.d = 29 /\ ~is_leap_year(year)
                          THEN 28 ELSE old.d
              /\ MonthTuple_subtract_years(MonthTuple_from(old), arg.n)
                    = MonthTuple(year, old.m)

\* C9, as stated: from_days(n) is Ok exactly when 1 <= n <= to_days(31
\* December 9999) and an Err for every other u32 n; it never panics and never
\* returns Ok of a date that is not n days into the calendar.  The year
\* counter is a u16, so from_days(23936533) panics or wraps to year 0, and
\* this formula is violated.
C9_FromDaysErrOutOfRange ==
    op = "from_days" =>
        /\ out.tag \in {"Ok", "Err"}
        /\ out.tag = "Ok" <=> (1 <= arg.n /\ arg.n <= LastDay)
        /\ out.tag = "Ok" => to_days(out.date) = arg.n

\* The order of the calendar on (year, month, day).
LexLess(a, b) ==
    \/ a.y < b.y
    \/ a.y = b.y /\ a.m < b.m
    \/ a.y = b.y /\ a.m = b.m /\ a.d < b.d

\* C10: the order of valid dates is the lexicographic order on (year,
\* month, day) and the order of their day counts; cmp and partial_cmp agree;
\* two dates are equal exactly when their three fields are.
C10_OrderIsLexicographic ==
    /\ op \in {"partial_cmp", "cmp"} =>
          /\ out.s = "Less" <=> LexLess(self, arg.date)
          /\ out.s = "Less" <=> to_days(self) < to_days(arg.date)
          /\ out.s = "Greater" <=> LexLess(arg.date, self)
          /\ out.s = "Greater" <=> to_days(self) > to_days(arg.date)
          /\ out.s = "Equal" <=> self = arg.date
          /\ cmp(self, arg.date) = partial_cmp(self, arg.date)
    /\ op = "eq" =>
          /\ out.s = "true" <=> self = arg.date
          /\ out.s = "true" <=> cmp(self, arg.date) = "Equal"
          /\ out.s = "true" <=> to_days(self) = to_days(arg.date)

\* A later year with an earlier month and day compared Greater.
C10_Witness ==
    /\ op = "partial_cmp"
    /\ self = DateTuple(100, 0, 1)
    /\ arg.date = DateTuple(4, 1, 29)
    /\ out = Ord("Greater")

\* C13: for every year in 0..=9999, is_leap_year is true exactly when the
\* year is divisible by 4 and not by 100, or divisible by 400; the last day
\* of February is 29 in a leap year and 28 in any other, that of April,
\* June, September and November is 30, and that of January, March, May,
\* July, August, October and December is 31.
C13_LeapYearsAndMonthLengths ==
    /\ op = "is_leap_year" =>
          /\ out.s = "true" <=>
                (arg.n % 4 = 0 /\ (arg.n % 100 # 0 \/ arg.n % 400 = 0))
          /\ arg.n \in {2000, 2012, 2016} => out.s = "true"
          /\ arg.n \in {2100, 2018, 2013} => out.s = "false"
    /\ op = "get_last_date_in_month" =>
          LET year == arg.date.y
              leap == year % 4 = 0 /\ (year % 100 # 0 \/ year % 400 = 0)
          IN  /\ arg.n = 1 => out.n = IF leap THEN 29 ELSE 28
              /\ arg.n \in {3, 5, 8, 10} => out.n = 30
              /\ arg.n \in {0, 2, 4, 6, 7, 9, 11} => out.n = 31

\* February of 2100, a year divisible by 100 and not by 400, has 28 days.
C13_Witness ==
    /\ op = "get_last_date_in_month"
    /\ arg.date.y = 2100
    /\ arg.n = 1
    /\ out.n = 28

\* A month of the calendar: year at most 9999, one of the twelve months.
ValidMonth(month) == month.y \in 0..9999 /\ month.m \in 0..11

\* n successive applications of next_month, and of previous_month.
RECURSIVE NextMonthTimes(_, _)
NextMonthTimes(month, n) ==
    IF n = 0 THEN month ELSE NextMonthTimes(next_month(month), n - 1)

RECURSIVE PreviousMonthTimes(_, _)
PreviousMonthTimes(month, n) ==
    IF n = 0 THEN month ELSE PreviousMonthTimes(previous_month(month), n - 1)

\* C14: next_month of December of a year below 9999 is January of the next
\* year, previous_month of January of a year above 0 is December of the
\* year before, any other month steps by one within its year, and December
\* 9999 and January 0000 are returned unchanged; add_months(n) and
\* subtract_months(n) are n such steps, and the MonthTuple held is always a
\* month of the calendar.
C14_MonthStepsAndSaturates ==
    /\ ValidMonth(self)
    /\ op = "next_month" =>
          /\ out = Value(self)
          /\ self = IF old = MonthTuple(9999, 11) THEN old
                    ELSE IF old.m = 11 THEN MonthTuple(old.y + 1, 0)
                    ELSE MonthTuple(old.y, old.m + 1)
    /\ op = "previous_month" =>
          /\ out = Value(self)
          /\ self = IF old = MonthTuple(0, 0) THEN old
                    ELSE IF old.m = 0 THEN MonthTuple(old.y - 1, 11)
                    ELSE MonthTuple(old.y, old.m - 1)
    /\ op = "MonthTuple::add_months" =>
          /\ self = NextMonthTimes(old, arg.n)
          /\ MonthIndex(self) = Min(MonthIndex(old) + arg.n, LastMonthIndex)
    /\ op = "MonthTuple::subtract_months" =>
          /\ self = PreviousMonthTimes(old, arg.n)
          /\ MonthIndex(self) = Max(MonthIndex(old) - arg.n, 0)

\* add_months(2) went from December 2000 to February 2001.
C14_Witness ==
    /\ op = "MonthTuple::add_months"
    /\ arg.n = 2
    /\ old = MonthTuple(2000, 11)
    /\ self = MonthTuple(2001, 1)

\* C15, as stated: to_string of a valid Month is the 7 characters YYYY-MM,
\* "2000-05" for MonthTuple::new(2000, 5), and parsing that string returns
\* the same Month.  The source writes "{:04}{:02}", six characters without
\* the hyphen ("200005"), and this formula is violated.
C15_MonthTextIsYearHyphenMonth ==
    /\ op = "MonthTuple::to_string" =>
          /\ Len(out.s) = 7
          /\ out.s = Padded(self.y, 4) \o <<"-">> \o Padded(self.m, 2)
          /\ self = MonthTuple(2000, 5) =>
                out.s = <<"2", "0", "0", "0", "-", "0", "5">>
    /\ (op = "MonthTuple::from_str" /\ steps >= 2 /\ arg.s = MonthTuple_to_string(old)) =>
          out = OkMonth(old)


---------------------------------------------------------------------------
(* Times of day.                                                           *)

\* (s + 60 m + 3600 h) mod 86400 for integers of any size, each term
\* reduced first.
DaySeconds(h, m, s) ==
    ((s % SECONDS_IN_A_DAY) + SECONDS_IN_A_MINUTE * (m % 1440)
        + SECONDS_IN_AN_HOUR * (h % 24)) % SECONDS_IN_A_DAY

\* C16, as stated: TimeTuple::new(h, m, s) returns, for every i32 triple,
\* without panic or overflow, the time of day whose to_seconds is
\* (s + 60 m + 3600 h) mod 86400.  Violated: 3600 * h and 60 * m are
\* computed in i32.
C16_NewTakesEveryTriple ==
    op = "TimeTuple::new" =>
        /\ out.tag = "Value"
        /\ TimeTuple_to_seconds(out.date)
               = DaySeconds(arg.date.h, arg.date.m, arg.date.s)

ValidTime(t) ==
    /\ 0 <= t.h /\ t.h <= 23
    /\ 0 <= t.m /\ t.m <= 59
    /\ 0 <= t.s /\ t.s <= 59

TimeOps ==
    { "TimeTuple::new", "TimeTuple::from_seconds", "TimeTuple::from_str",
      "TimeTuple::add_seconds", "TimeTuple::subtract_seconds",
      "TimeTuple::add_minutes", "TimeTuple::subtract_minutes",
      "TimeTuple::add_hours", "TimeTuple::subtract_hours",
      "TimeTuple::add", "TimeTuple::add_assign",
      "TimeTuple::sub", "TimeTuple::sub_assign" }

\* C17: after any sequence of TimeTuple operations (new, from_seconds,
\* parse, add / subtract seconds, minutes, hours, +, -, +=, -=) the held
\* value and every TimeTuple returned have hour <= 23, minute <= 59 and
\* second <= 59, and two such values are equal exactly when their
\* to_seconds are equal.
C17_FieldsStayInRange ==
    op \in TimeOps =>
        /\ ValidTime(self)
        /\ ValidTime(old)
        /\ out.tag \in {"Value", "Ok"} => ValidTime(out.date)
        /\ TimeTuple_eq(self, old)
               <=> TimeTuple_to_seconds(self) = TimeTuple_to_seconds(old)
        /\ \A other \in OtherTimes :
               TimeTuple_eq(self, other)
                   <=> TimeTuple_to_seconds(self) = TimeTuple_to_seconds(other)

\* 23:59:59 + 23:59:59 after two earlier calls is 23:59:58.
C17_Witness ==
    /\ steps = 3
    /\ op = "TimeTuple::add"
    /\ old = TimeTuple(23, 59, 59)
    /\ arg.date = TimeTuple(23, 59, 59)
    /\ self = TimeTuple(23, 59, 58)
    /\ out = Value(self)

\* n units of `unit` seconds, reduced to a day.
UnitSeconds(name, n) ==
    IF name \in {"TimeTuple::add_seconds", "TimeTuple::subtract_seconds"}
    THEN DaySeconds(0, 0, n)
    ELSE IF name \in {"TimeTuple::add_minutes", "TimeTuple::subtract_minutes"}
    THEN DaySeconds(0, n, 0)
    ELSE DaySeconds(n, 0, 0)

\* C18, as stated: add_seconds, add_minutes, add_hours of n turn the time
\* T into (T + n * unit) mod 86400, and the subtract_ calls into
\* (T - n * unit) mod 86400, for every i32 n.  Violated: the new field and
\* its product with 60 or 3600 are computed in i32.
C18_MutatorsShiftModuloADay ==
    /\ op \in {"TimeTuple::add_seconds", "TimeTuple::add_minutes",
               "TimeTuple::add_hours"} =>
           /\ out.tag = "Unit"
           /\ TimeTuple_to_seconds(self)
                  = (TimeTuple_to_seconds(old) + UnitSeconds(op, arg.n))
                        % SECONDS_IN_A_DAY
    /\ op \in {"TimeTuple::subtract_seconds", "TimeTuple::subtract_minutes",
               "TimeTuple::subtract_hours"} =>
           /\ out.tag = "Unit"
           /\ TimeTuple_to_seconds(self)
                  = (TimeTuple_to_seconds(old) - UnitSeconds(op, arg.n))
                        % SECONDS_IN_A_DAY

\* C19, as stated: a + b is the time (a + b) mod 86400 and a - b the time
\* (a - b) mod 86400, in seconds, without panic, also when a field of b is
\* larger than the field of a; += and -= likewise.  Violated: the fields
\* are subtracted in u8.
C19_OperatorsAddModuloADay ==
    /\ op \in {"TimeTuple::add", "TimeTuple::add_assign"} =>
           /\ out.tag # "Panic"
           /\ TimeTuple_to_seconds(self)
                  = (TimeTuple_to_seconds(old) + TimeTuple_to_seconds(arg.date))
                        % SECONDS_IN_A_DAY
    /\ op \in {"TimeTuple::sub", "TimeTuple::sub_assign"} =>
           /\ out.tag # "Panic"
           /\ TimeTuple_to_seconds(self)
                  = (TimeTuple_to_seconds(old) - TimeTuple_to_seconds(arg.date))
                        % SECONDS_IN_A_DAY


---------------------------------------------------------------------------
(* Durations.                                                              *)

\* 3600 h + 60 m + s, exactly, in limbs.
TotalSeconds(h, m, s) ==
    WideAdd(WideScale(SECONDS_IN_AN_HOUR, h),
            WideAdd(WideScale(SECONDS_IN_A_MINUTE, m), Wide(s)))

\* C20, as stated: Duration::new(h, m, s) returns, for every u32 triple
\* whose normalised hours fit u32, without overflow, a Duration with
\* minutes <= 59 and seconds <= 59 whose to_seconds is 3600 h + 60 m + s.
\* Violated: the sum is computed in u32, which holds 1193046 hours.
C20_NewTakesEveryHourCount ==
    op = "Duration::new" =>
        /\ out.tag = "Value"
        /\ out.date.m <= 59
        /\ out.date.s <= 59
        /\ Duration_to_seconds(out.date)
               = TotalSeconds(arg.date.h, arg.date.m, arg.date.s)


---------------------------------------------------------------------------
(* Dates as text.                                                          *)

\* text[from..from + n - 1] are ASCII digits 0..9.
AsciiDigitsAt(text, from, n) ==
    /\ Len(text) >= from + n - 1
    /\ \A i \in from..(from + n - 1) : IsDigit(text[i])

Hyphenated(text) ==
    /\ Len(text) = 10
    /\ AsciiDigitsAt(text, 1, 4) /\ text[5] = "-"
    /\ AsciiDigitsAt(text, 6, 2) /\ text[8] = "-"
    /\ AsciiDigitsAt(text, 9, 2)

EightDigits(text) == Len(text) = 8 /\ AsciiDigitsAt(text, 1, 8)

\* The (year, month, day) fields written in a text of either form.
FieldsOf(text) ==
    IF Hyphenated(text)
    THEN DateTuple(DigitsValue(SubSeq(text, 1, 4)), DigitsValue(SubSeq(text, 6, 7)),
                   DigitsValue(SubSeq(text, 9, 10)))
    ELSE DateTuple(DigitsValue(SubSeq(text, 1, 4)), DigitsValue(SubSeq(text, 5, 6)),
                   DigitsValue(SubSeq(text, 7, 8)))

\* C11: to_string of a valid Date d is the zero-padded 10 characters
\* YYYY-MM-DD, and parsing it returns Ok(d); parsing a YYYY-MM-DD or
\* 8-digit YYYYMMDD text whose fields form no valid date (month field 15 or
\* 16, say) returns Err and does not panic.  The month field is the
\* source's month index.
C11_DateTextRoundTrip ==
    /\ op = "to_string" => Hyphenated(out.s) /\ FieldsOf(out.s) = self
    /\ op = "from_str" /\ arg.s = to_string(old) => out = Ok(old) /\ self = old
    /\ op = "from_str" /\ (Hyphenated(arg.s) \/ EightDigits(arg.s)) =>
           IF Valid(FieldsOf(arg.s)) THEN out = Ok(FieldsOf(arg.s))
           ELSE out.tag = "Err" /\ self = old

\* 29 February 2000 (month index 1) written and read back.
C11_Witness ==
    /\ op = "from_str"
    /\ steps = 3
    /\ old = DateTuple(2000, 1, 29)
    /\ arg.s = <<"2", "0", "0", "0", "-", "0", "1", "-", "2", "9">>
    /\ out = Ok(old)

\* C12, as stated: the canonical and the readable string name the same
\* calendar month, 01 = Jan to 12 = Dec: the Date new(2000, 5, 10) has
\* to_string "2000-05-10" and to_readable_string "10 May 2000", and a
\* DateTime on that date at 08:30:00 reads "10 May 2000 08:30:00".
\* Violated: the readable month is MONTH_STRINGS[5], "Jun".
C12_StringsNameTheSameMonth ==
    self = DateTuple(2000, 5, 10) =>
        /\ op = "to_string" =>
               out.s = <<"2", "0", "0", "0", "-", "0", "5", "-", "1", "0">>
        /\ op = "to_readable_string" =>
               out.s = <<"1", "0", " ", "M", "a", "y", " ", "2", "0", "0", "0">>
        /\ op = "DateTimeTuple::to_readable_string" /\ arg.date = TimeTuple(8, 30, 0) =>
               out.s = <<"1", "0", " ", "M", "a", "y", " ", "2", "0", "0", "0", " ",
                         "0", "8", ":", "3", "0", ":", "0", "0">>


---------------------------------------------------------------------------
(* Date + Date.                                                            *)

\* C28: a + b is the Date whose day-count is a.to_days() + b.to_days() when
\* that sum is at most the day-count of 31 December 9999, and max_value
\* otherwise; the sum does not overflow and the operation does not panic.
\* 29 February 2000 + 28 January 0000 is 28 March 2000 (months 1, 0 and 2
\* of the source).
C28_AddIsDayCountSumSaturated ==
    op = "add" =>
        /\ out.tag = "Value"
        /\ Valid(out.date)
        /\ self = out.date
        /\ to_days(old) + to_days(arg.date) <= I32_MAX
        /\ IF to_days(old) + to_days(arg.date) <= to_days(max_value)
           THEN to_days(out.date) = to_days(old) + to_days(arg.date)
           ELSE out.date = max_value
        /\ old = DateTuple(2000, 1, 29) /\ arg.date = DateTuple(0, 0, 28)
               => out.date = DateTuple(2000, 2, 28)
        /\ old = DateTuple(2000, 1, 29) /\ arg.date = DateTuple(8000, 1, 29)
               => out.date = DateTuple(9999, 11, 31)

\* 30 December 9999 + 1 January 0000: the sum is the last day-count.
C28_Witness ==
    /\ op = "add"
    /\ old = DateTuple(9999, 11, 30)
    /\ arg.date = DateTuple(0, 0, 1)
    /\ out = Value(DateTuple(9999, 11, 31))
    /\ to_days(old) + to_days(arg.date) = to_days(max_value)


---------------------------------------------------------------------------
(* Duration arithmetic.                                                    *)

\* The seconds of a Duration of few hours, as one integer.
Secs(d) == SECONDS_IN_AN_HOUR * d.h + SECONDS_IN_A_MINUTE * d.m + d.s

UnitOf(name) ==
    IF name = "Duration::subtract_seconds" THEN 1
    ELSE IF name = "Duration::subtract_minutes" THEN SECONDS_IN_A_MINUTE
    ELSE SECONDS_IN_AN_HOUR

\* C21, as stated: for n * unit <= d.to_seconds(), subtract_seconds(n),
\* subtract_minutes(n) and subtract_hours(n) reduce d.to_seconds() by
\* n * unit, borrowing from the higher fields (10:59:02 minus 1 s, then
\* minus 2 s, is 10:58:59), and for a.to_seconds() >= b.to_seconds(),
\* (a - b).to_seconds() is the difference (2:00:00 - 1:30:00 is 0:30:00),
\* with no panic or wrap-around.  Violated: the fields are subtracted
\* one by one, in u32 or u8.
C21_SubtractionActsOnTotalSeconds ==
    /\ op \in {"Duration::subtract_seconds", "Duration::subtract_minutes",
               "Duration::subtract_hours"}
          /\ arg.n * UnitOf(op) <= Secs(old) =>
           /\ out.tag = "Unit"
           /\ Secs(self) = Secs(old) - arg.n * UnitOf(op)
    /\ op \in {"Duration::sub", "Duration::sub_assign"}
          /\ Secs(old) >= Secs(arg.date) =>
           /\ out.tag # "Panic"
           /\ Secs(self) = Secs(old) - Secs(arg.date)


---------------------------------------------------------------------------
(* Duration text and minutes.                                              *)

Text200 == <<"2", "0", "0", ":", "0", "0", ":", "0", "0">>

\* C22, as stated: d.to_string() is H:MM:SS with H the whole hour count
\* without padding (200:00:00 for Duration::new(200, 0, 0)), parsing that
\* text returns Ok(d) for every d, and the parser returns Ok or Err for
\* every input, never a panic, also for a long run of digits.  Violated:
\* the parser unwraps u32::from_str and hands the fields to Duration::new.
C22_TextRoundTripAndTotalParser ==
    /\ op = "Duration::to_string" =>
           /\ out.s = Decimal(self.h) \o <<":">> \o Padded(self.m, 2)
                          \o <<":">> \o Padded(self.s, 2)
           /\ self = Duration(200, 0, 0) => out.s = Text200
    /\ op = "Duration::from_str" => out.tag \in {"Ok", "Err"}
    /\ op = "Duration::from_str" /\ arg.s = Duration_to_string(old)
          /\ steps >= 3 =>
           out = Ok(old)

\* C29, as stated: to_minutes() is 60 * h + m with no overflow of u32, also
\* for the Duration between the year 0000 and the year 9999, and
\* to_seconds() is 3600 * h + 60 * m + s.  Violated: 60 * h is a u32 product.
C29_MinutesAndSecondsWithoutOverflow ==
    /\ op = "Duration::to_minutes" =>
           /\ out.tag = "Minutes"
           /\ out.date = WideAdd(WideTimes(SECONDS_IN_A_MINUTE, Wide(self.h)),
                                 Wide(self.m))
    /\ op = "Duration::to_seconds" =>
           /\ out.tag = "Seconds"
           /\ out.date = SecondsOf(self)


---------------------------------------------------------------------------
(* DateTimeTuple: order and text.                                          *)

\* A date as one number, in the order of its year, month and day.
DateKey(d) == (d.y * 12 + d.m) * 32 + d.d

Before(a, b) ==
    \/ DateKey(a.d) < DateKey(b.d)
    \/ a.d = b.d /\ TimeTuple_to_seconds(a.t) < TimeTuple_to_seconds(b.t)

Lexicographic(a, b) ==
    IF Before(a, b) THEN "Less" ELSE IF Before(b, a) THEN "Greater" ELSE "Equal"

Reverse(o) == IF o = "Less" THEN "Greater" ELSE IF o = "Greater" THEN "Less" ELSE o

May10 == DateTuple(2000, 4, 10)
May11 == DateTuple(2000, 4, 11)

\* C23: the order of DateTimes is by date first and by time.to_seconds()
\* when the dates are equal, never by time first: a < b iff a.date < b.date,
\* or a.date = b.date and a.time < b.time; 10 May 2000 08:30:00 is before
\* 10 May 2000 09:30:00, which is before 11 May 2000 08:30:00; the order is
\* total (antisymmetric, transitive) and Equal exactly on equal values.
C23_OrderIsDateThenTime ==
    /\ op \in {"DateTimeTuple::partial_cmp", "DateTimeTuple::cmp"} =>
           /\ out.s = Lexicographic(self, arg.date)
           /\ out.s = "Equal" <=> self = arg.date
           /\ DateTimeTuple_cmp(arg.date, self) = Reverse(out.s)
           /\ DateTimeTuple_partial_cmp(arg.date, self) = Reverse(out.s)
           /\ \A c \in DateTimes :
                  /\ out.s # "Greater"
                  /\ DateTimeTuple_cmp(arg.date, c) # "Greater"
                  => DateTimeTuple_cmp(self, c) # "Greater"
           /\ self = DateTimeTuple(May10, TimeTuple(8, 30, 0))
                  /\ arg.date = DateTimeTuple(May10, TimeTuple(9, 30, 0))
                  => out.s = "Less"
           /\ self = DateTimeTuple(May10, TimeTuple(9, 30, 0))
                  /\ arg.date = DateTimeTuple(May11, TimeTuple(8, 30, 0))
                  => out.s = "Less"
    /\ op = "DateTimeTuple::eq" =>
           (out.s = "true" <=> DateTimeTuple_cmp(self, arg.date) = "Equal")

\* 10 May 2000 09:30:00 is before 11 May 2000 08:30:00: the later time of
\* day is on the earlier date.
C23_Witness ==
    /\ op = "DateTimeTuple::partial_cmp"
    /\ self = DateTimeTuple(May10, TimeTuple(9, 30, 0))
    /\ arg.date = DateTimeTuple(May11, TimeTuple(8, 30, 0))
    /\ out.s = "Less"

\* C24, as stated: the DateTime parser returns Ok(DateTime(d, t)) exactly
\* when the text is D@T with the Date parser Ok(d) on D and the TimeOfDay
\* parser Ok(t) on T, and Err, never a panic, on every other text
\* (2000-15-10@08:30:00, 2-a11111@05:a:04); parsing x.to_string() returns
\* Ok(x).  Violated: a text that matches the pattern with a digit outside
\* ASCII panics in the parser of its part.
C24_ParserIsOkExactlyOnDateAtTime ==
    op = "DateTimeTuple::from_str" =>
        LET parts == SplitAt(arg.s, <<>>)
            d == from_str(parts[1])
            t == TimeTuple_from_str(parts[2], overflow_checks)
        IN  /\ IF Len(parts) = 2 /\ d.tag = "Ok" /\ t.ok /\ ~t.panic
               THEN out = Ok(DateTimeTuple(d.date, t.time))
               ELSE out.tag = "Err"
            /\ arg.s = DateTimeTuple_to_string(old) => out = Ok(old)

\* The form dd:dd:dd in ASCII digits.
ClockForm(text) ==
    /\ Len(text) = 8
    /\ \A i \in {1, 2, 4, 5, 7, 8} : IsDigit(text[i])
    /\ text[3] = ":"
    /\ text[6] = ":"

TwoDigits(text, i) == 10 * DigitValue(text[i]) + DigitValue(text[i + 1])

Wrapped(text) ==
    (SECONDS_IN_AN_HOUR * TwoDigits(text, 1)
         + SECONDS_IN_A_MINUTE * TwoDigits(text, 4)
         + TwoDigits(text, 7)) % SECONDS_IN_A_DAY

\* C30: the TimeOfDay parser rejects no text of the form dd:dd:dd; fields
\* out of range are wrapped (24:00:00 is read as 00:00:00, 99:99:99 as the
\* time of (99 * 3600 + 99 * 60 + 99) mod 86400 seconds); as the time part
\* of a DateTime text, the DateTime read has the date as written, and no
\* hours are carried into it.
C30_ParserWrapsAndKeepsTheDate ==
    /\ op = "TimeTuple::from_str" /\ ClockForm(arg.s) =>
           /\ out.tag = "Ok"
           /\ TimeTuple_to_seconds(out.date) = Wrapped(arg.s)
           /\ arg.s = <<"2", "4", ":", "0", "0", ":", "0", "0">> => out.date = TimeTuple(0, 0, 0)
           /\ arg.s = <<"9", "9", ":", "9", "9", ":", "9", "9">> => out.date = TimeTuple(4, 40, 39)
    /\ op = "DateTimeTuple::from_str" =>
           LET parts == SplitAt(arg.s, <<>>)
               d == from_str(parts[1])
           IN  Len(parts) = 2 /\ ClockForm(parts[2]) /\ d.tag = "Ok" =>
                   /\ out.tag = "Ok"
                   /\ out.date.d = d.date
                   /\ Len(parts[1]) = 10 => to_string(out.date.d) = parts[1]
                   /\ TimeTuple_to_seconds(out.date.t) = Wrapped(parts[2])

\* 25:00:00 on the last date: 01:00:00 on that date.
C30_Witness ==
    /\ op = "DateTimeTuple::from_str"
    /\ arg.s = 
          <<"9", "9", "9", "9", "-", "1", "1", "-", "3", "1", "@", "2", "5", ":">>
              \o <<"0", "0", ":", "0", "0">>
    /\ out = Ok(DateTimeTuple(DateTuple(9999, 11, 31), TimeTuple(1, 0, 0)))


---------------------------------------------------------------------------
(* Duration::between.                                                      *)

\* |86400 * (days of b - days of a) + (seconds of b - seconds of a)|, in
\* limbs.
Elapsed(a, b) ==
    LET days == to_days(b.d) - to_days(a.d)
        time == TimeTuple_to_seconds(b.t) - TimeTuple_to_seconds(a.t)
    IN  IF days > 0 \/ (days = 0 /\ time >= 0)
        THEN WideAdd(WideDays(days), Wide(time))
        ELSE WideAdd(WideDays(-days), Wide(-time))

Day0 == DateTuple(2000, 4, 10)
Day1 == DateTuple(2000, 4, 11)

\* C25: Duration::between(a, b) does not depend on the order of a and b,
\* and its to_seconds() is |86400 * (days of b - days of a) + (seconds of
\* b.time - seconds of a.time)|: zero for equal DateTimes, 1:00:00 from
\* 00:00:00 to 01:00:00 of one day, 25:00:00 from 00:00:00 to 01:00:00 of
\* the next day, and the whole range from the first to the last DateTime
\* without overflow or panic.
C25_BetweenIsElapsedSeconds ==
    /\ op = "Duration::between" =>
           /\ out.tag = "Value"
           /\ out.date = Duration_between(arg.date, self)
           /\ Duration_to_seconds(out.date) = Elapsed(self, arg.date)
           /\ out.date.m <= 59 /\ out.date.s <= 59
           /\ self = arg.date => out.date = Duration(0, 0, 0)
           /\ self = DateTimeTuple(Day0, TimeTuple(0, 0, 0))
                  /\ arg.date = DateTimeTuple(Day0, TimeTuple(1, 0, 0))
                  => out.date = Duration(1, 0, 0)
           /\ self = DateTimeTuple(Day0, TimeTuple(0, 0, 0))
                  /\ arg.date = DateTimeTuple(Day1, TimeTuple(1, 0, 0))
                  => out.date = Duration(25, 0, 0)
    /\ op = "Duration::to_seconds" =>
           /\ out.tag = "Seconds"
           /\ out.date = Elapsed(self, arg.date)

\* From 0000-01-01 00:00:00 to 9999-12-31 23:59:59: 87658199:59:59.
C25_Witness ==
    /\ op = "Duration::between"
    /\ self = DateTimeTuple(DateTuple(0, 0, 1), TimeTuple(0, 0, 0))
    /\ arg.date = DateTimeTuple(DateTuple(9999, 11, 31), TimeTuple(23, 59, 59))
    /\ out.date = Duration(87658199, 59, 59)


---------------------------------------------------------------------------
(* The system clock.                                                       *)

EpochDate == DateTuple(UNIX_EPOCH_START_YEAR, 0, 1)

\* The date of a reading: 1 January 1970 and a next_date for every whole
\* day of it.
DateOfReading(secs) == add_days(EpochDate, secs \div SECONDS_IN_A_DAY)

\* C26, as stated: for every clock reading s >= 0 whose date is within
\* the range, DateTuple::today() returns, without panic, a valid Date, the
\* one reached from 1 January 1970 by floor(s / 86400) next_date, and
\* MonthTuple::this_month() is the month of that Date.  Violated: the
\* reading is cut into years of 31557600 s and months of 2629800 s.
C26_TodayIsTheDayCountOfTheReading ==
    /\ op = "DateTuple::today" /\ arg.s = "Ok" =>
           /\ out.tag = "Value"
           /\ Valid(out.date)
           /\ out.date = DateOfReading(arg.n)
    /\ op = "MonthTuple::this_month" /\ arg.s = "Ok" =>
           /\ out.tag = "Value"
           /\ out.date = MonthTuple(DateOfReading(arg.n).y, DateOfReading(arg.n).m)

\* C27: when the clock cannot be read the elapsed time is zero and nothing
\* panics: today() is 1 January 1970, this_month() is January 1970 and
\* now() is 00:00:00; on a reading of s seconds, now().to_seconds() is
\* s mod 86400.
C27_UnreadClockIsTheEpoch ==
    /\ op = "DateTuple::today" /\ arg.s = "Err" =>
           out = Value(DateTuple(UNIX_EPOCH_START_YEAR, 0, 1))
    /\ op = "MonthTuple::this_month" /\ arg.s = "Err" =>
           out = Value(MonthTuple(UNIX_EPOCH_START_YEAR, 0))
    /\ op = "TimeTuple::now" /\ arg.s = "Err" =>
           out = Value(TimeTuple(0, 0, 0))
    /\ op = "TimeTuple::now" /\ arg.s = "Ok" =>
           /\ out.tag = "Value"
           /\ out.date.h <= 23 /\ out.date.m <= 59 /\ out.date.s <= 59
           /\ TimeTuple_to_seconds(out.date) = arg.n % SECONDS_IN_A_DAY

\* The clock is before the epoch and today() is asked.
C27_Witness ==
    /\ op = "DateTuple::today"
    /\ arg.s = "Err"
    /\ out = Value(EpochDate)

====
